---------------------------- MODULE Spec2Model ----------------------------
(***************************************************************************)
(* A model of the gettext crate: the MO binary parser (src/src/parser.rs), *)
(* the metadata parser (src/src/metadata.rs), the plural expression engine *)
(* (src/src/plurals.rs) and the catalog with its lookups (src/src/lib.rs). *)
(*                                                                         *)
(* Text is a sequence of Unicode code points, a file a sequence of bytes   *)
(* (0..255).  Option<T> is a sequence of length 0 (None) or 1 (Some).      *)
(* usize is taken to be 64 bits wide (the targets the tests run on): the   *)
(* sums of two 32-bit fields that the parser computes do not wrap.  TLC's  *)
(* integers are 32 bits, so the 32-bit fields of the generated files keep  *)
(* their top byte at most 63 and every sum stays exact.                    *)
(***************************************************************************)
EXTENDS Integers, Sequences, FiniteSets, TLC

VARIABLES
    cats,     \* the catalogs the caller holds: slot -> Catalog
    pc,       \* position of parse_catalog: "idle" or "loop"
    p,        \* locals of the running parse_catalog call
    result,   \* what the last parse_catalog call returned
    ret,      \* the last lookup call and what it returned
    ops       \* number of insert and merge calls made so far

vars == <<cats, pc, p, result, ret, ops>>

(***************************************************************************)
(* Bounds of the model.                                                    *)
(***************************************************************************)
\* counts n passed to ngettext/npgettext range over 0..MaxCount
MaxCount == 2
\* at most MaxOps insert/merge calls in a run
MaxOps == 2

(***************************************************************************)
(* Text helpers.                                                           *)
(***************************************************************************)
Code ==
    ("\n" :> 10)
    @@ (" " :> 32) @@ ("!" :> 33) @@ ("#" :> 35) @@ ("$" :> 36) @@ ("%" :> 37) @@ ("&" :> 38)
    @@ ("'" :> 39) @@ ("(" :> 40) @@ (")" :> 41) @@ ("*" :> 42) @@ ("+" :> 43) @@ ("," :> 44)
    @@ ("-" :> 45) @@ ("." :> 46) @@ ("/" :> 47) @@ ("0" :> 48) @@ ("1" :> 49) @@ ("2" :> 50)
    @@ ("3" :> 51) @@ ("4" :> 52) @@ ("5" :> 53) @@ ("6" :> 54) @@ ("7" :> 55) @@ ("8" :> 56)
    @@ ("9" :> 57) @@ (":" :> 58) @@ (";" :> 59) @@ ("<" :> 60) @@ ("=" :> 61) @@ (">" :> 62)
    @@ ("?" :> 63) @@ ("@" :> 64) @@ ("A" :> 65) @@ ("B" :> 66) @@ ("C" :> 67) @@ ("D" :> 68)
    @@ ("E" :> 69) @@ ("F" :> 70) @@ ("G" :> 71) @@ ("H" :> 72) @@ ("I" :> 73) @@ ("J" :> 74)
    @@ ("K" :> 75) @@ ("L" :> 76) @@ ("M" :> 77) @@ ("N" :> 78) @@ ("O" :> 79) @@ ("P" :> 80)
    @@ ("Q" :> 81) @@ ("R" :> 82) @@ ("S" :> 83) @@ ("T" :> 84) @@ ("U" :> 85) @@ ("V" :> 86)
    @@ ("W" :> 87) @@ ("X" :> 88) @@ ("Y" :> 89) @@ ("Z" :> 90) @@ ("[" :> 91) @@ ("]" :> 93)
    @@ ("^" :> 94) @@ ("_" :> 95) @@ ("a" :> 97) @@ ("b" :> 98) @@ ("c" :> 99)
    @@ ("d" :> 100) @@ ("e" :> 101) @@ ("f" :> 102) @@ ("g" :> 103) @@ ("h" :> 104) @@ ("i" :> 105)
    @@ ("j" :> 106) @@ ("k" :> 107) @@ ("l" :> 108) @@ ("m" :> 109) @@ ("n" :> 110) @@ ("o" :> 111)
    @@ ("p" :> 112) @@ ("q" :> 113) @@ ("r" :> 114) @@ ("s" :> 115) @@ ("t" :> 116) @@ ("u" :> 117)
    @@ ("v" :> 118) @@ ("w" :> 119) @@ ("x" :> 120) @@ ("y" :> 121) @@ ("z" :> 122) @@ ("{" :> 123)
    @@ ("|" :> 124) @@ ("}" :> 125) @@ ("~" :> 126)

\* the code points (equally: the ASCII bytes) of a string literal
S(s) == [k \in 1..Len(s) |-> Code[SubSeq(s, k, k)]]

None == << >>
Some(x) == << x >>
IsSome(o) == Len(o) = 1
Unwrap(o) == o[1]

SetMin(A) == CHOOSE x \in A : \A y \in A : x <= y
SetMax(A) == CHOOSE x \in A : \A y \in A : y <= x

\* Iterator::position: the 0-based index of the first element equal to c
Position(s, c) ==
    LET hits == {k \in 1..Len(s) : s[k] = c}
    IN  IF hits = {} THEN None ELSE Some(SetMin(hits) - 1)

\* the Rust slice s[a..b] (0-based, half open); the caller checks the range
Sub(s, a, b) == SubSeq(s, a + 1, b)

\* whether pat occurs in s at the 0-based position a
MatchAt(s, pat, a) ==
    /\ a + Len(pat) <= Len(s)
    /\ \A k \in 1..Len(pat) : s[a + k] = pat[k]

\* the 0-based positions at which pat occurs in s
Occurrences(s, pat) == {a \in 0..(Len(s) - Len(pat)) : MatchAt(s, pat, a)}

\* str::split(pat) and slice::split(|x| x = b): the pieces between the
\* occurrences of pat, left to right; never an empty sequence.  The patterns
\* split on here ("\n", ";", the byte 0, "charset=") cannot overlap
\* themselves, so every occurrence is a separator.
Split(s, pat) ==
    LET occ == Occurrences(s, pat)
        starts == {0} \cup {a + Len(pat) : a \in occ}
        stop(a) == IF \E x \in occ : x >= a THEN SetMin({x \in occ : x >= a}) ELSE Len(s)
        marked == [k \in 1..(Len(s) + 1) |->
                      IF k - 1 \in starts THEN << Sub(s, k - 1, stop(k - 1)) >> ELSE << >>]
        kept == SelectSeq(marked, LAMBDA m : Len(m) = 1)
    IN  [j \in 1..Len(kept) |-> kept[j][1]]

\* char::is_whitespace (the White_Space property)
IsWhitespace(c) ==
    c \in (9..13) \cup {32, 133, 160, 5760, 8232, 8233, 8239, 8287, 12288} \cup (8192..8202)

\* str::trim
Trim(s) ==
    LET keep == {k \in 1..Len(s) : ~IsWhitespace(s[k])}
    IN  IF keep = {} THEN << >> ELSE SubSeq(s, SetMin(keep), SetMax(keep))

Ok(v) == [tag |-> "Ok", v |-> v]
Err(e) == [tag |-> "Err", err |-> e]
\* a panic: the call returns nothing and the thread unwinds
Panic(why) == [tag |-> "Panic", err |-> why]

(***************************************************************************)
(* The encoding crate, as parse_catalog uses it.  Two encodings of its     *)
(* registry are modelled, UTF-8 and windows-1257, each with its WHATWG     *)
(* labels; every other label the generated files declare is one the        *)
(* registry does not know either.                                          *)
(***************************************************************************)
\* one UTF-8 scalar at the 0-based position a: <<code point, width>>, or
\* None when the bytes there are not a well-formed sequence
Utf8At(b, a) ==
    LET n  == Len(b) - a
        b1 == b[a + 1]
        c(k) == b[a + k] - 128
        cont(k) == b[a + k] \in 128..191
    IN  IF b1 < 128 THEN Some(<<b1, 1>>)
        ELSE IF b1 \in 194..223
        THEN IF n >= 2 /\ cont(2) THEN Some(<<(b1 - 192) * 64 + c(2), 2>>) ELSE None
        ELSE IF b1 \in 224..239
        THEN IF /\ n >= 3 /\ cont(2) /\ cont(3)
                /\ (b1 = 224 => b[a + 2] >= 160)
                /\ (b1 = 237 => b[a + 2] <= 159)
             THEN Some(<<(b1 - 224) * 4096 + c(2) * 64 + c(3), 3>>) ELSE None
        ELSE IF b1 \in 240..244
        THEN IF /\ n >= 4 /\ cont(2) /\ cont(3) /\ cont(4)
                /\ (b1 = 240 => b[a + 2] >= 144)
                /\ (b1 = 244 => b[a + 2] <= 143)
             THEN Some(<<(b1 - 240) * 262144 + c(2) * 4096 + c(3) * 64 + c(4), 4>>)
             ELSE None
        ELSE None

\* UTF-8, strict: the bytes that are not continuation bytes (80..BF) start
\* the scalars; the input is well formed when it starts with such a byte and
\* every scalar ends where the next one starts
DecodeUtf8(b) ==
    LET leads == {a \in 0..(Len(b) - 1) : b[a + 1] \notin 128..191}
        next(a) == IF \E x \in leads : x > a THEN SetMin({x \in leads : x > a}) ELSE Len(b)
        wellFormed ==
            /\ Len(b) > 0 => 0 \in leads
            /\ \A a \in leads : /\ IsSome(Utf8At(b, a))
                                 /\ a + Unwrap(Utf8At(b, a))[2] = next(a)
        marked == [k \in 1..Len(b) |->
                      IF k - 1 \in leads THEN Unwrap(Utf8At(b, k - 1))[1] ELSE -1]
    IN  IF wellFormed THEN Ok(SelectSeq(marked, LAMBDA x : x >= 0))
        ELSE Err("DecodingError")

\* windows-1257 (the WHATWG index), bytes 80..FF; 0 where the byte has no
\* character (A1 and A5)
Windows1257High ==
    << 8364, 129, 8218, 131, 8222, 8230, 8224, 8225,
       136, 8240, 138, 8249, 140, 168, 711, 184,
       144, 8216, 8217, 8220, 8221, 8226, 8211, 8212,
       152, 8482, 154, 8250, 156, 175, 731, 159,
       160, 0, 162, 163, 164, 0, 166, 167,
       216, 169, 342, 171, 172, 173, 174, 198,
       176, 177, 178, 179, 180, 181, 182, 183,
       248, 185, 343, 187, 188, 189, 190, 230,
       260, 302, 256, 262, 196, 197, 280, 274,
       268, 201, 377, 278, 290, 310, 298, 315,
       352, 323, 325, 211, 332, 213, 214, 215,
       370, 321, 346, 362, 220, 379, 381, 223,
       261, 303, 257, 263, 228, 229, 281, 275,
       269, 233, 378, 279, 291, 311, 299, 316,
       353, 324, 326, 243, 333, 245, 246, 247,
       371, 322, 347, 363, 252, 380, 382, 729 >>

DecodeWindows1257(b) ==
    LET ch(x) == IF x < 128 THEN x ELSE Windows1257High[x - 127]
    IN  IF \E k \in 1..Len(b) : ch(b[k]) = 0 THEN Err("DecodingError")
        ELSE Ok([k \in 1..Len(b) |-> ch(b[k])])

\* mutant: the forced or declared encoding is ignored, UTF-8 always decodes
DecodeAlwaysUtf8(encoding, b) == DecodeUtf8(b)

\* encoding.decode(bytes, DecoderTrap::Strict)
Decode(encoding, b) ==
    IF encoding = "utf-8" THEN DecodeUtf8(b) ELSE DecodeWindows1257(b)

\* char::to_lowercase on the ASCII letters
Lower(s) == [k \in 1..Len(s) |-> IF s[k] \in 65..90 THEN s[k] + 32 ELSE s[k]]

\* the label, stripped of the characters space, \n, \r, \t and \x0C
TrimLabel(s) ==
    LET keep == {k \in 1..Len(s) : s[k] \notin {32, 10, 13, 9, 12}}
    IN  IF keep = {} THEN << >> ELSE SubSeq(s, SetMin(keep), SetMax(keep))

\* encoding_from_whatwg_label
encoding_from_whatwg_label(label) ==
    LET l == Lower(TrimLabel(label))
    IN  IF l \in {S("utf-8"), S("utf8"), S("unicode-1-1-utf-8")} THEN Some("utf-8")
        ELSE IF l \in {S("cp1257"), S("windows-1257"), S("x-cp1257")}
             THEN Some("windows-1257")
        ELSE None

(***************************************************************************)
(* src/src/metadata.rs                                                     *)
(***************************************************************************)
\* HashMap::insert: a later value replaces an earlier one under the same key
MapInsert(m, k, v) == [x \in DOMAIN m \cup {k} |-> IF x = k THEN v ELSE m[x]]

EmptyMap == [x \in {} |-> << >>]

SelectNonEmpty(ss) == SelectSeq(ss, LAMBDA s : s /= << >>)

RECURSIVE MetadataLines(_, _, _)
MetadataLines(lines, k, map) ==
    IF k > Len(lines) THEN Ok(map)
    ELSE LET line == lines[k]
             pos  == Position(line, 58)
         IN  IF ~IsSome(pos) THEN Err("MalformedMetadata")
             ELSE MetadataLines(lines, k + 1,
                      MapInsert(map, Trim(Sub(line, 0, Unwrap(pos))),
                                     Trim(Sub(line, Unwrap(pos) + 1, Len(line)))))

parse_metadata(blob) ==
    MetadataLines(SelectNonEmpty(Split(blob, <<10>>)), 1, EmptyMap)

\* MetadataMap::charset
charset(map) ==
    IF S("Content-Type") \notin DOMAIN map THEN None
    ELSE LET parts == Split(map[S("Content-Type")], S("charset="))
         IN  IF Len(parts) >= 2 THEN Some(parts[2]) ELSE None

\* usize::from_str_radix(s, 10).ok(), for the numbers of up to nine digits
\* that the generated files hold
RECURSIVE DigitsValue(_, _)
DigitsValue(s, acc) ==
    IF s = << >> THEN acc ELSE DigitsValue(Tail(s), acc * 10 + (Head(s) - 48))

ParseUnsigned(s) ==
    LET d == IF s /= << >> /\ Head(s) = 43 THEN Tail(s) ELSE s
    IN  IF d /= << >> /\ Len(d) <= 9 /\ \A k \in 1..Len(d) : d[k] \in 48..57
        THEN Some(DigitsValue(d, 0)) ELSE None

RECURSIVE PluralFormsFold(_, _, _)
PluralFormsFold(props, k, acc) ==
    IF k > Len(props) THEN acc
    ELSE LET prop  == props[k]
             index == Position(prop, 61)
             name  == Trim(Sub(prop, 0, Unwrap(index)))
             value == Trim(Sub(prop, Unwrap(index) + 1, Len(prop)))
             next  == IF ~IsSome(index) THEN acc
                      ELSE IF name = S("n_plurals") THEN <<ParseUnsigned(value), acc[2]>>
                      ELSE IF name = S("plural") THEN <<acc[1], Some(value)>>
                      ELSE acc
         IN  PluralFormsFold(props, k + 1, next)

\* MetadataMap::plural_forms
plural_forms(map) ==
    IF S("Plural-Forms") \notin DOMAIN map THEN <<None, None>>
    ELSE PluralFormsFold(Split(map[S("Plural-Forms")], <<59>>), 1, <<None, None>>)

(***************************************************************************)
(* src/src/plurals.rs.  The sources parsed here are ASCII, so a character  *)
(* index is a byte index.                                                  *)
(***************************************************************************)
\* one step of the fold of index_of over the characters of src
IndexOfStep(pat, st, ch) ==
    IF IsSome(st.match_index) THEN st
    ELSE LET new_par_lvl == IF ch = 40 THEN st.paren_level + 1
                            ELSE IF ch = 41 THEN st.paren_level - 1
                            ELSE st.paren_level
         IN  IF st.n_matches < Len(pat) /\ pat[st.n_matches + 1] = ch
             THEN LET length == st.n_matches + 1
                  IN  IF length = Len(pat) /\ new_par_lvl = 0
                      THEN [match_index |-> Some(st.i - st.n_matches), i |-> st.i + 1,
                            n_matches |-> length, paren_level |-> new_par_lvl]
                      ELSE [match_index |-> st.match_index, i |-> st.i + 1,
                            n_matches |-> length, paren_level |-> new_par_lvl]
             ELSE [match_index |-> st.match_index, i |-> st.i + 1,
                   n_matches |-> 0, paren_level |-> new_par_lvl]

\* the fold over the characters src[a..b] (1-based, inclusive), halved so
\* that the evaluation stays shallow; a fold is the same whichever way it
\* is bracketed
RECURSIVE IndexOfFold(_, _, _, _, _)
IndexOfFold(src, pat, a, b, st) ==
    IF a > b THEN st
    ELSE IF a = b THEN IndexOfStep(pat, st, src[a])
    ELSE LET m   == (a + b) \div 2
             mid == IndexOfFold(src, pat, a, m, st)
         \* once a match is found the remaining steps leave the state as it is
         IN  IF IsSome(mid.match_index) THEN mid
             ELSE IndexOfFold(src, pat, m + 1, b, mid)

\* mutant: the first occurrence of the pattern, inside parentheses or not
index_of_anywhere(src, pat) ==
    IF Occurrences(src, pat) = {} THEN None ELSE Some(SetMin(Occurrences(src, pat)))

\* index_of: the index of a pattern, outside of parentheses
index_of(src, pat) ==
    IndexOfFold(src, pat, 1, Len(src),
        [match_index |-> None, i |-> 0, n_matches |-> 0, paren_level |-> 0]).match_index

N == [t |-> "N"]
Integer(x) == [t |-> "Integer", x |-> x]
Op(op, lhs, rhs) == [t |-> "Op", op |-> op, lhs |-> lhs, rhs |-> rhs]
Ternary(cond, ok, nok) == [t |-> "Ternary", cond |-> cond, ok |-> ok, nok |-> nok]
Not(val) == [t |-> "Not", val |-> val]

\* one step of the fold of parse_parens: st is <<level, index>>
ParensStep(st, ch) ==
    LET level == st[1]
        index == st[2]
    IN  IF level = 0
        THEN (IF ch = 40 THEN <<level + 1, index + 1>> ELSE <<level, index>>)
        ELSE IF ch = 40 THEN <<level + 1, index + 1>>
        ELSE IF ch = 41 THEN <<level - 1, index + 1>>
        ELSE <<level, index + 1>>

\* the fold of parse_parens over inner[a..b] (1-based, inclusive), halved
RECURSIVE ParensFold(_, _, _, _)
ParensFold(inner, a, b, st) ==
    IF a > b THEN st
    ELSE IF a = b THEN ParensStep(st, inner[a])
    ELSE LET m   == (a + b) \div 2
             mid == ParensFold(inner, a, m, st)
         \* index starts at 2 and never decreases; the test has mid evaluated first
         IN  IF mid[2] >= 2 THEN ParensFold(inner, m + 1, b, mid) ELSE mid

\* mutant: || is looked for before &&
LevelsOrFirst ==
    << [fn |-> "parse_or",      pat |-> S("||"), op |-> "Or"],
       [fn |-> "parse_and",     pat |-> S("&&"), op |-> "And"],
       [fn |-> "parse_ternary", pat |-> S("?"),  op |-> "Ternary"],
       [fn |-> "parse_ge",      pat |-> S(">="), op |-> "GreaterOrEqual"],
       [fn |-> "parse_gt",      pat |-> S(">"),  op |-> "Greater"],
       [fn |-> "parse_le",      pat |-> S("<="), op |-> "SmallerOrEqual"],
       [fn |-> "parse_lt",      pat |-> S("<"),  op |-> "Smaller"],
       [fn |-> "parse_eq",      pat |-> S("=="), op |-> "Equal"],
       [fn |-> "parse_neq",     pat |-> S("!="), op |-> "NotEqual"],
       [fn |-> "parse_mod",     pat |-> S("%"),  op |-> "Modulo"] >>

\* parse_and, parse_or, parse_ternary, parse_ge, parse_gt, parse_le, parse_lt,
\* parse_eq, parse_neq and parse_mod, in the order in which each hands the
\* source to the next when its token does not occur outside parentheses
Levels ==
    << [fn |-> "parse_and",     pat |-> S("&&"), op |-> "And"],
       [fn |-> "parse_or",      pat |-> S("||"), op |-> "Or"],
       [fn |-> "parse_ternary", pat |-> S("?"),  op |-> "Ternary"],
       [fn |-> "parse_ge",      pat |-> S(">="), op |-> "GreaterOrEqual"],
       [fn |-> "parse_gt",      pat |-> S(">"),  op |-> "Greater"],
       [fn |-> "parse_le",      pat |-> S("<="), op |-> "SmallerOrEqual"],
       [fn |-> "parse_lt",      pat |-> S("<"),  op |-> "Smaller"],
       [fn |-> "parse_eq",      pat |-> S("=="), op |-> "Equal"],
       [fn |-> "parse_neq",     pat |-> S("!="), op |-> "NotEqual"],
       [fn |-> "parse_mod",     pat |-> S("%"),  op |-> "Modulo"] >>

RECURSIVE parse(_), parse_parens(_), parse_and(_), parse_not(_)

\* Ast::parse
parse(src) == parse_parens(Trim(src))

\* mutant: an enclosing pair of parentheses is not removed
parse_parens_kept(src) == parse_and(Trim(src))

parse_parens(src) ==
    IF src /= << >> /\ Head(src) = 40
    THEN IF Len(src) - 1 < 1 THEN Panic("slice index starts at 1 but ends at 0")
         ELSE IF ParensFold(src, 2, Len(src) - 1, <<1, 2>>)[2] = Len(src)
         THEN parse(Trim(Sub(src, 1, Len(src) - 1)))
         ELSE parse_and(Trim(src))
    ELSE parse_and(Trim(src))

\* Ok(Ast::Op(op, parse(..)?, parse(..)?)): the first error, else the node
OpOf(op, lhs, rhs) ==
    IF lhs.tag /= "Ok" THEN lhs
    ELSE IF rhs.tag /= "Ok" THEN rhs
    ELSE Ok(Op(op, lhs.v, rhs.v))

\* Ok(Ast::Ternary(parse(..)?, parse(..)?, parse(..)?))
TernaryOf(cond, ok, nok) ==
    IF cond.tag /= "Ok" THEN cond
    ELSE IF ok.tag /= "Ok" THEN ok
    ELSE IF nok.tag /= "Ok" THEN nok
    ELSE Ok(Ternary(cond.v, ok.v, nok.v))

\* &src[a..b] handed to Ast::parse; the slice panics when a > b
ParseSlice(src, a, b) ==
    IF a > b THEN Panic("slice index starts after its end") ELSE parse(Sub(src, a, b))

\* the source split at index i, where the token of level lv was found; l is
\* the index of ':', which parse_ternary looks for
SplitLevel(src, lv, i, l) ==
    IF lv.op /= "Ternary"
    THEN OpOf(lv.op, parse(Sub(src, 0, i)), parse(Sub(src, i + Len(lv.pat), Len(src))))
    ELSE IF ~IsSome(l) THEN Err("PluralParsing")
    ELSE TernaryOf(parse(Sub(src, 0, i)),
                   ParseSlice(src, i + 1, Unwrap(l)),
                   parse(Sub(src, Unwrap(l) + 1, Len(src))))

\* the first level of hits, the levels whose token index_of finds in src
FirstLevel(src, lv) ==
    SplitLevel(src, lv, Unwrap(index_of(src, lv.pat)), index_of(src, S(":")))

\* the chain parse_and .. parse_mod: the first level of Levels whose token
\* index_of finds splits the source there; parse_mod hands on to parse_not.
\* Each part is parsed with the ? operator, left to right: the first error
\* is returned.
ParseLevels(src, hits) ==
    IF hits = {} THEN parse_not(Trim(src))
    ELSE FirstLevel(src, Levels[SetMin(hits)])

parse_and(src) ==
    ParseLevels(src, {k \in DOMAIN Levels : IsSome(index_of(src, Levels[k].pat))})

\* parse_n: the literal n, or the error
parse_n(src) == IF src = S("n") THEN Ok(N) ELSE Err("PluralParsing")

\* Ok(Ast::Integer(x)) when x parsed, else parse_n
IntegerOr(x, src) == IF IsSome(x) THEN Ok(Integer(Unwrap(x))) ELSE parse_n(Trim(src))

\* parse_int: u64::from_str_radix(src, 10), else parse_n
parse_int(src) == IntegerOr(ParseUnsigned(src), src)

\* Ok(Ast::Not(parse(..)?))
NotOf(val) == IF val.tag /= "Ok" THEN val ELSE Ok(Not(val.v))

parse_not(src) ==
    IF index_of(src, S("!")) = Some(0)
    THEN NotOf(parse(Sub(src, 1, Len(src))))
    ELSE parse_int(Trim(src))

Bool(b) == IF b THEN 1 ELSE 0

\* Ast::resolve: the value, or the panic of a remainder by zero.  Rust's &&
\* and || leave the right operand unevaluated when the left one decides.
RECURSIVE AstResolve(_, _)
AstResolve(ast, n) ==
    IF ast.t = "Ternary"
    THEN LET c == AstResolve(ast.cond, n)
         IN  IF c.tag /= "Ok" THEN c
             ELSE IF c.v = 0 THEN AstResolve(ast.nok, n) ELSE AstResolve(ast.ok, n)
    ELSE IF ast.t = "N" THEN Ok(n)
    ELSE IF ast.t = "Integer" THEN Ok(ast.x)
    ELSE IF ast.t = "Not"
    THEN LET v == AstResolve(ast.val, n)
         IN  IF v.tag /= "Ok" THEN v ELSE Ok(Bool(v.v = 0))
    ELSE LET l == AstResolve(ast.lhs, n)
             r == AstResolve(ast.rhs, n)
         IN  IF l.tag /= "Ok" THEN l
             ELSE IF ast.op = "And" /\ l.v = 0 THEN Ok(0)
             ELSE IF ast.op = "Or" /\ l.v /= 0 THEN Ok(1)
             ELSE IF r.tag /= "Ok" THEN r
             ELSE IF ast.op = "Equal" THEN Ok(Bool(l.v = r.v))
             ELSE IF ast.op = "NotEqual" THEN Ok(Bool(l.v /= r.v))
             ELSE IF ast.op = "GreaterOrEqual" THEN Ok(Bool(l.v >= r.v))
             ELSE IF ast.op = "SmallerOrEqual" THEN Ok(Bool(l.v <= r.v))
             ELSE IF ast.op = "Greater" THEN Ok(Bool(l.v > r.v))
             ELSE IF ast.op = "Smaller" THEN Ok(Bool(l.v < r.v))
             ELSE IF ast.op = "And" THEN Ok(Bool(r.v /= 0))
             ELSE IF ast.op = "Or" THEN Ok(Bool(r.v /= 0))
             ELSE IF r.v = 0
                  THEN Panic("attempt to calculate the remainder with a divisor of zero")
                  ELSE Ok(l.v % r.v)

\* default_resolver (src/src/parser.rs)
default_resolver(n) == IF n = 1 THEN 0 ELSE 1

\* the plural function of tests/lib.rs, which callers force
lithuanian_plural(n) ==
    IF n % 10 = 1 /\ n % 100 /= 11 THEN 0
    ELSE IF n % 10 >= 2 /\ (n % 100 < 10 \/ n % 100 >= 20) THEN 1
    ELSE 2

\* the resolver of the tests of lib.rs: count as usize
count_resolver(n) == n

Function(f) == [kind |-> "Function", f |-> f, ast |-> N]
Expr(ast) == [kind |-> "Expr", f |-> "", ast |-> ast]

\* Resolver::resolve
resolve(resolver, n) ==
    IF resolver.kind = "Expr" THEN AstResolve(resolver.ast, n)
    ELSE IF resolver.f = "default_resolver" THEN Ok(default_resolver(n))
    ELSE IF resolver.f = "lithuanian_plural" THEN Ok(lithuanian_plural(n))
    ELSE Ok(count_resolver(n))

(***************************************************************************)
(* src/src/lib.rs                                                          *)
(***************************************************************************)
\* mutant: the separator U+0004 is left out of the key
key_without_separator(context, key) == context \o key

key_with_context(context, key) == context \o <<4>> \o key

\* Message::new
Message_new(id, context, translated) ==
    [id |-> id, context |-> context, translated |-> translated, plural |-> None]

\* Message::with_plural
Message_with_plural(id, context, translated, plural) ==
    [id |-> id, context |-> context, translated |-> translated, plural |-> plural]

\* Catalog::new
Catalog_new ==
    [strings |-> EmptyMap, resolver |-> Function("default_resolver"), metadata |-> None]

\* Catalog::insert
insert(catalog, msg) ==
    LET key == IF IsSome(msg.context) THEN key_with_context(Unwrap(msg.context), msg.id)
               ELSE msg.id
    IN  [catalog EXCEPT !.strings = MapInsert(@, key, msg)]

\* mutant: an entry the target already holds is kept
merge_keeping(self, catalog) ==
    [self EXCEPT !.strings =
        [k \in DOMAIN self.strings \cup DOMAIN catalog.strings |->
            IF k \in DOMAIN self.strings THEN self.strings[k] ELSE catalog.strings[k]]]

\* mutant: the resolver comes along with the entries
merge_with_resolver(self, catalog) ==
    [self EXCEPT !.resolver = catalog.resolver,
                 !.strings =
        [k \in DOMAIN self.strings \cup DOMAIN catalog.strings |->
            IF k \in DOMAIN catalog.strings THEN catalog.strings[k] ELSE self.strings[k]]]

\* Catalog::merge: HashMap::extend with a copy of the other catalog's entries
merge(self, catalog) ==
    [self EXCEPT !.strings =
        [k \in DOMAIN self.strings \cup DOMAIN catalog.strings |->
            IF k \in DOMAIN catalog.strings THEN catalog.strings[k] ELSE self.strings[k]]]

\* HashMap::get
MapGet(m, k) == IF k \in DOMAIN m THEN Some(m[k]) ELSE None

\* mutant: the form after the one asked for
get_translated_next(msg, form_no) ==
    IF form_no + 1 < Len(msg.translated) THEN Some(msg.translated[form_no + 2]) ELSE None

\* Message::get_translated
get_translated(msg, form_no) ==
    IF form_no < Len(msg.translated) THEN Some(msg.translated[form_no + 1]) ELSE None

\* message.and_then(|m| m.get_translated(form_no))
Translated(message, form_no) ==
    IF IsSome(message) THEN get_translated(Unwrap(message), form_no) ELSE None

\* Catalog::gettext
gettext(self, msg_id) ==
    LET t == Translated(MapGet(self.strings, msg_id), 0)
    IN  Ok(IF IsSome(t) THEN Unwrap(t) ELSE msg_id)

\* mutant: the fallback is chosen by the form number, not by n
PluralChoiceByForm(self, key, msg_id, msg_id_plural, n) ==
    LET form_no == resolve(self.resolver, n)
    IN  IF form_no.tag /= "Ok" THEN form_no
        ELSE LET t == Translated(MapGet(self.strings, key), form_no.v)
             IN  Ok(IF IsSome(t) THEN Unwrap(t)
                    ELSE IF form_no.v = 0 THEN msg_id ELSE msg_id_plural)

\* the body shared by ngettext and npgettext: the form the resolver picks,
\* else msg_id when n == 1 and msg_id_plural when n != 1
PluralChoice(self, key, msg_id, msg_id_plural, n) ==
    LET form_no == resolve(self.resolver, n)
    IN  IF form_no.tag /= "Ok" THEN form_no
        ELSE LET t == Translated(MapGet(self.strings, key), form_no.v)
             IN  Ok(IF IsSome(t) THEN Unwrap(t)
                    ELSE IF n = 1 THEN msg_id ELSE msg_id_plural)

\* Catalog::ngettext
ngettext(self, msg_id, msg_id_plural, n) ==
    PluralChoice(self, msg_id, msg_id, msg_id_plural, n)

\* Catalog::pgettext
pgettext(self, msg_context, msg_id) ==
    LET t == Translated(MapGet(self.strings, key_with_context(msg_context, msg_id)), 0)
    IN  Ok(IF IsSome(t) THEN Unwrap(t) ELSE msg_id)

\* Catalog::npgettext
npgettext(self, msg_context, msg_id, msg_id_plural, n) ==
    PluralChoice(self, key_with_context(msg_context, msg_id), msg_id, msg_id_plural, n)


(***************************************************************************)
(* src/src/parser.rs                                                       *)
(***************************************************************************)
\* ParseOptions::new, force_encoding, force_plural
ParseOptions(force_encoding, force_plural) ==
    [force_encoding |-> force_encoding, force_plural |-> force_plural]

LittleEndianMagic == <<222, 18, 4, 149>>
BigEndianMagic == <<149, 4, 18, 222>>

get_read_u32_fn(magic) ==
    IF magic = LittleEndianMagic THEN Some("LittleEndian")
    ELSE IF magic = BigEndianMagic THEN Some("BigEndian")
    ELSE None

\* LittleEndian::read_u32 and BigEndian::read_u32 on a four-byte slice
read_u32(endian, b) ==
    IF endian = "LittleEndian"
    THEN b[1] + 256 * b[2] + 65536 * b[3] + 16777216 * b[4]
    ELSE b[4] + 256 * b[3] + 65536 * b[2] + 16777216 * b[1]

\* &contents[a..b]: the range is checked, a range outside the vector panics
Slice(contents, a, b) ==
    IF a <= b /\ b <= Len(contents) THEN Ok(Sub(contents, a, b))
    ELSE Panic("slice index out of range")

\* read_u32(&contents[a..a + 4])
ReadSlice(endian, s) == IF s.tag = "Ok" THEN Ok(read_u32(endian, s.v)) ELSE s

ReadAt(endian, contents, a) == ReadSlice(endian, Slice(contents, a, a + 4))

\* the local variables of parse_catalog
Locals(contents, opts) ==
    [contents |-> contents, opts |-> opts, n |-> Len(contents), read_u32 |-> "",
     num_strings |-> 0, off_otable |-> 0, off_ttable |-> 0, i |-> 0,
     catalog |-> Catalog_new, resolver |-> Function("default_resolver"),
     encoding |-> "utf-8", map |-> None]

StepReturn(res, locals) == [done |-> TRUE, res |-> res, p |-> locals]
StepContinue(locals) == [done |-> FALSE, res |-> None, p |-> locals]

\* parse_catalog, lines 154 to 164: the header fields and the initial locals
\* lines 161 to 163: the resolver and the encoding before the loop
LoopLocals(h) ==
    [h EXCEPT !.resolver = IF IsSome(h.opts.force_plural)
                           THEN Function(Unwrap(h.opts.force_plural))
                           ELSE Function("default_resolver"),
              !.encoding = IF IsSome(h.opts.force_encoding)
                           THEN Unwrap(h.opts.force_encoding)
                           ELSE "utf-8"]

\* line 157: both tables begin inside the file
TablesInFile(h) ==
    IF h.n < h.off_otable \/ h.n < h.off_ttable
    THEN StepReturn(Err("Eof"), h)
    ELSE StepContinue(LoopLocals(h))

\* lines 153 to 163: N, O and T are read with the magic number's byte order
HeaderTables(contents, opts, r) ==
    TablesInFile([Locals(contents, opts) EXCEPT
                     !.read_u32 = r,
                     !.num_strings = read_u32(r, Sub(contents, 8, 12)),
                     !.off_otable = read_u32(r, Sub(contents, 12, 16)),
                     !.off_ttable = read_u32(r, Sub(contents, 16, 20))])

\* mutant: the magic number is looked at before the length
HeaderMagicFirst(contents, opts) ==
    IF Len(contents) < 4 \/ get_read_u32_fn(SubSeq(contents, 1, 4)) = None
    THEN StepReturn(Err("BadMagic"), Locals(contents, opts))
    ELSE IF Len(contents) < 28 THEN StepReturn(Err("Eof"), Locals(contents, opts))
    ELSE HeaderTables(contents, opts, Unwrap(get_read_u32_fn(Sub(contents, 0, 4))))

\* parse_catalog up to the loop: the length, the magic number, the header
Header(contents, opts) ==
    IF Len(contents) < 28 THEN StepReturn(Err("Eof"), Locals(contents, opts))
    ELSE IF get_read_u32_fn(Sub(contents, 0, 4)) = None
         THEN StepReturn(Err("BadMagic"), Locals(contents, opts))
    ELSE HeaderTables(contents, opts, Unwrap(get_read_u32_fn(Sub(contents, 0, 4))))

\* mutant: the trailing NUL is left out of the range that is checked
BlobEndWithoutNul(off, len) == off + len

\* off + len + 1: +1 compensates for the ending NUL byte
BlobEnd(off, len) == off + len + 1

\* the (length, offset) record at table offset t, lines 168 to 176 and 201
\* to 209: Eof when the record or the blob with its NUL passes the end
CheckedRecord(n, len, off) ==
    IF len.tag /= "Ok" THEN len
    ELSE IF off.tag /= "Ok" THEN off
    \* usize is 64 bits wide, so the sum of two u32 values does not wrap;
    \* a length or an offset beyond n alone puts the sum beyond n
    ELSE IF len.v > n \/ off.v > n \/ n < BlobEnd(off.v, len.v) THEN Err("Eof")
    ELSE Ok([len |-> len.v, off |-> off.v])

TableRecord(l, t) ==
    IF l.n < t + 8 THEN Err("Eof")
    ELSE CheckedRecord(l.n, ReadAt(l.read_u32, l.contents, t),
                            ReadAt(l.read_u32, l.contents, t + 4))

\* let mut original = &contents[off..off + len + 1]
BlobOf(contents, r, nul) ==
    IF r.tag /= "Ok" THEN r
    ELSE Slice(contents, r.v.off, r.v.off + r.v.len + nul)

OriginalBlob(l) == BlobOf(l.contents, TableRecord(l, l.off_otable), 1)

\* mutant: an empty id is accepted at every index
IsMisplacedNever(id, i) == FALSE

\* id == "" && i != 0
IsMisplaced(id, i) == id = << >> /\ i /= 0

\* collect::<Result<Vec<_>, _>>(): the first error, else all the values
Collect(rs) ==
    IF \E k \in 1..Len(rs) : rs[k].tag /= "Ok"
    THEN rs[SetMin({k \in 1..Len(rs) : rs[k].tag /= "Ok"})]
    ELSE Ok([k \in 1..Len(rs) |-> rs[k].v])

\* Some(try!(..)): the decoded context as an Option
MapOk(r) == IF r.tag /= "Ok" THEN r ELSE Ok(Some(r.v))

\* lines 188 to 195: the id, the bytes of rest before its first NUL
IdOf(encoding, context, rest, nul) ==
    IF context.tag /= "Ok" THEN context
    ELSE IF ~IsSome(nul) THEN Err("Eof")
    ELSE Collect(<<context, Decode(encoding, Sub(rest, 0, Unwrap(nul)))>>)

\* lines 179 to 186: the context, the bytes before the first byte 4 (idx);
\* the result holds <<context, id>>
ContextOf(encoding, original, idx) ==
    IF IsSome(idx)
    THEN IdOf(encoding, MapOk(Decode(encoding, Sub(original, 0, Unwrap(idx)))),
              Sub(original, Unwrap(idx) + 1, Len(original)),
              Position(Sub(original, Unwrap(idx) + 1, Len(original)), 0))
    ELSE IdOf(encoding, Ok(None), original, Position(original, 0))

PairToRecord(r) ==
    IF r.tag /= "Ok" THEN r ELSE Ok([context |-> r.v[1], id |-> r.v[2]])

\* lines 179 to 195: the context before the first byte 4, the id before the
\* first NUL after it
ContextAndId(l, original) ==
    PairToRecord(ContextOf(l.encoding, original, Position(original, 4)))

DecodeForms(encoding, b) ==
    IF b.tag /= "Ok" THEN b
    ELSE Collect([k \in 1..Len(Split(b.v, <<0>>)) |->
                     Decode(encoding, Split(b.v, <<0>>)[k])])

\* lines 201 to 215: the translation blob, split on NUL, each form decoded
TranslatedBlob(l) ==
    DecodeForms(l.encoding, BlobOf(l.contents, TableRecord(l, l.off_ttable), 0))

\* lines 219 to 222: the label's encoding, or UnknownEncoding
Lookup(enc_ref) ==
    IF IsSome(enc_ref) THEN Ok(Unwrap(enc_ref)) ELSE Err("UnknownEncoding")

\* line 218: the pattern (Some(c), None) on the declared charset and the
\* forced encoding
DeclaredEncodingOf(l, c) ==
    IF IsSome(c) /\ ~IsSome(l.opts.force_encoding)
    THEN Lookup(encoding_from_whatwg_label(Unwrap(c)))
    ELSE Ok(l.encoding)

\* mutant: an unrecognised label leaves the encoding as it is
DeclaredEncodingOrKeep(l, map) ==
    IF DeclaredEncodingOf(l, charset(map)).tag = "Ok"
    THEN DeclaredEncodingOf(l, charset(map))
    ELSE Ok(l.encoding)

\* lines 218 to 223: the declared charset replaces the encoding only when
\* the caller forced none; the label is looked up only then
DeclaredEncoding(l, map) == DeclaredEncodingOf(l, charset(map))

PluralOr(plural) == IF IsSome(plural) THEN Unwrap(plural) ELSE S("n!=1")

\* plural_forms().1, with the default "n!=1" that plural_forms documents
\* (metadata.rs line 25) when the header gives no plural expression
PluralSource(map) == PluralOr(plural_forms(map)[2])

\* line 225: the resolver is assigned whether or not the caller forced a
\* plural function
WithResolver(lm, enc, ast) ==
    IF ast.tag /= "Ok" THEN StepReturn(ast, lm)
    ELSE StepContinue([lm EXCEPT !.encoding = enc, !.resolver = Expr(ast.v)])

\* lines 218 to 225
WithEncoding(lm, map, enc) ==
    IF enc.tag /= "Ok" THEN StepReturn(enc, lm)
    ELSE WithResolver(lm, enc.v, parse(PluralSource(map)))

WithMap(lm, map) == WithEncoding(lm, map, DeclaredEncoding(lm, map))

\* line 217: parse_metadata(..) is unwrapped, so its error is a panic and
\* not a returned value
Unwrapped(l, m) ==
    IF m.tag /= "Ok"
    THEN StepReturn(Panic("called Result::unwrap() on an Err value"), l)
    ELSE WithMap([l EXCEPT !.map = Some(m.v)], m.v)

\* lines 216 to 226, for the entry whose id is empty
Metadata(l, translated) == Unwrapped(l, parse_metadata(translated[1]))

\* lines 228 to 231: the message is inserted, the offsets move on
Inserted(md, ci, translated) ==
    IF md.done THEN md
    ELSE StepContinue([md.p EXCEPT
                         !.catalog = insert(@, Message_new(ci.id, ci.context,
                                                           translated)),
                         !.off_otable = @ + 8,
                         !.off_ttable = @ + 8,
                         !.i = @ + 1])

\* mutant: the metadata entry is read and not inserted
AfterTranslatedMetadataAside(l, ci, translated) ==
    IF translated.tag /= "Ok" THEN StepReturn(translated, l)
    ELSE IF ci.id = << >>
         THEN IF Metadata(l, translated.v).done THEN Metadata(l, translated.v)
              ELSE StepContinue([Metadata(l, translated.v).p EXCEPT
                                    !.off_otable = @ + 8,
                                    !.off_ttable = @ + 8,
                                    !.i = @ + 1])
         ELSE Inserted(StepContinue(l), ci, translated.v)

\* lines 216 to 231
AfterTranslated(l, ci, translated) ==
    IF translated.tag /= "Ok" THEN StepReturn(translated, l)
    ELSE IF ci.id = << >>
         THEN Inserted(Metadata(l, translated.v), ci, translated.v)
         ELSE Inserted(StepContinue(l), ci, translated.v)

\* lines 196 to 215
AfterId(l, ci) ==
    IF ci.tag /= "Ok" THEN StepReturn(ci, l)
    ELSE IF IsMisplaced(ci.v.id, l.i) THEN StepReturn(Err("MisplacedMetadata"), l)
    ELSE AfterTranslated(l, ci.v, TranslatedBlob(l))

\* lines 177 to 195
AfterOriginal(l, original) ==
    IF original.tag /= "Ok" THEN StepReturn(original, l)
    ELSE AfterId(l, ContextAndId(l, original.v))

\* one iteration of the loop, lines 166 to 232
EntryStep(l) == AfterOriginal(l, OriginalBlob(l))

\* lines 234 and 235
Finish(l) == Ok([l.catalog EXCEPT !.resolver = l.resolver])

\* parse_catalog as one call: the header, the loop, the return
RECURSIVE Walk(_)
WalkOn(st) == IF st.done THEN st.res ELSE Walk(st.p)

Walk(l) == IF l.i >= l.num_strings THEN Finish(l) ELSE WalkOn(EntryStep(l))

parse_catalog(contents, opts) == WalkOn(Header(contents, opts))


(***************************************************************************)
(* MO files: the layout that parse_catalog reads.  A header of 28 bytes    *)
(* (magic, revision, N, O, T, hash size, hash offset), the table of the    *)
(* originals at O, the table of the translations at T, each of N records   *)
(* (length, offset), then the blobs, each followed by a NUL.               *)
(***************************************************************************)
U32(endian, v) ==
    LET b == <<v % 256, (v \div 256) % 256, (v \div 65536) % 256, v \div 16777216>>
    IN  IF endian = "LittleEndian" THEN b ELSE <<b[4], b[3], b[2], b[1]>>

Magic(endian) == IF endian = "LittleEndian" THEN LittleEndianMagic ELSE BigEndianMagic

RECURSIVE Concat(_)
Concat(ss) == IF ss = << >> THEN << >> ELSE Head(ss) \o Concat(Tail(ss))

\* the offset of blob k when the blobs start at d
RECURSIVE BlobOffset(_, _, _)
BlobOffset(blobs, k, d) ==
    IF k = 1 THEN d ELSE BlobOffset(blobs, k - 1, d) + Len(blobs[k - 1]) + 1

\* a well-formed file of the entries <<original, translation>>
MoFile(endian, entries) ==
    LET num   == Len(entries)
        blobs == [k \in 1..(2 * num) |->
                    IF k <= num THEN entries[k][1] ELSE entries[k - num][2]]
        rec(k) == U32(endian, Len(blobs[k])) \o
                  U32(endian, BlobOffset(blobs, k, 28 + 16 * num))
    IN  Magic(endian) \o U32(endian, 0) \o U32(endian, num) \o U32(endian, 28)
        \o U32(endian, 28 + 8 * num) \o U32(endian, 0) \o U32(endian, 0)
        \o Concat([k \in 1..(2 * num) |-> rec(k)])
        \o Concat([k \in 1..(2 * num) |-> blobs[k] \o <<0>>])

\* the file with the u32 at byte position pos replaced by v
Patch(endian, file, pos, v) ==
    [k \in 1..Len(file) |->
        IF k - 1 \in pos..(pos + 3) THEN U32(endian, v)[k - pos] ELSE file[k]]

\* the file cut to its first k bytes
Truncate(file, k) == Sub(file, 0, k)


(***************************************************************************)
(* The inputs: metadata blobs, entries, files, options, queries.           *)
(***************************************************************************)
MetaCp1257 ==
    S("Content-Type: text/plain; charset=cp1257\nPlural-Forms: nplurals=2; plural=n%2;\n")
MetaUnknown == S("Content-Type: text/plain; charset=utf-42\nPlural-Forms: plural=n%2\n")
MetaMalformed == S("Content-Type: text/plain; charset=UTF-8\nno colon here\n")
MetaPlain == S("Language: lt\n")
\* a plural expression whose divisor is the count
MetaModulo == S("Plural-Forms: nplurals=2; plural=1%n;\n")
MetaUtf8 == S("Content-Type: text/plain; charset=utf-8\n")

\* the metadata record: the entry whose original is empty
MetaEntry(blob) == << << >>, blob >>
\* context "c", id "a", plural id "as", two forms
EntryContext == << S("c") \o <<4>> \o S("a") \o <<0>> \o S("as"), S("A") \o <<0>> \o S("As") >>
\* id "a", two forms
EntryPlural == << S("a") \o <<0>> \o S("as"), S("B") \o <<0>> \o S("Bs") >>
\* a translation that is windows-1257 text and not UTF-8
EntryCp1257 == << S("b"), <<200, 101>> >>
\* a translation that is UTF-8 text, and other text in windows-1257
EntryUtf8 == << S("b"), <<195, 169>> >>
\* a translation that neither encoding decodes
EntryUndecodable == << S("d"), <<161>> >>
\* an id that windows-1257 decodes and UTF-8 does not
EntryIdCp1257 == << <<200>>, S("x") >>
\* an empty id with a translation that has no ':'
EntryEmptyId == << << >>, S("x") >>
\* an empty id under a context
EntryEmptyIdContext == << S("c") \o <<4>>, S("y") >>

FileCp1257 == MoFile("LittleEndian", <<MetaEntry(MetaCp1257), EntryContext, EntryCp1257>>)
FilePlain == MoFile("BigEndian", <<EntryContext, EntryUtf8>>)
FileTwo == MoFile("LittleEndian", <<EntryPlural, EntryUtf8>>)

WellFormedFiles ==
    { FileCp1257, FilePlain, FileTwo,
      MoFile("LittleEndian", << >>),
      MoFile("BigEndian", <<MetaEntry(MetaCp1257), EntryPlural, EntryUtf8>>),
      MoFile("LittleEndian", <<MetaEntry(MetaUnknown), EntryUtf8>>),
      MoFile("LittleEndian", <<MetaEntry(MetaUnknown), EntryCp1257>>),
      MoFile("LittleEndian", <<MetaEntry(MetaMalformed), EntryContext>>),
      MoFile("LittleEndian", <<MetaEntry(MetaPlain), EntryPlural, EntryUtf8>>),
      MoFile("BigEndian", <<MetaEntry(MetaUtf8), EntryCp1257>>),
      MoFile("LittleEndian", <<MetaEntry(MetaUtf8), EntryContext, EntryUtf8>>),
      MoFile("LittleEndian", <<EntryContext, EntryEmptyId>>),
      MoFile("BigEndian", <<MetaEntry(MetaPlain), EntryUtf8, MetaEntry(MetaCp1257)>>),
      MoFile("LittleEndian", <<EntryEmptyId>>),
      MoFile("LittleEndian", <<EntryUtf8, EntryEmptyIdContext>>),
      MoFile("LittleEndian", <<EntryCp1257>>),
      MoFile("LittleEndian", <<EntryIdCp1257, EntryEmptyId>>),
      MoFile("LittleEndian", <<EntryPlural, EntryUndecodable>>),
      MoFile("LittleEndian", <<EntryPlural, EntryContext, EntryPlural>>),
      MoFile("LittleEndian", <<MetaEntry(MetaModulo), EntryPlural>>) }

\* files whose header or records point outside the file, or miss a NUL
DamagedFiles ==
    { Truncate(FileTwo, k) : k \in {0, 3, 4, 27, 28, 43, 44, 59, 60,
                                    Len(FileTwo) - 4, Len(FileTwo) - 1} }
    \cup { Truncate(FilePlain, Len(FilePlain) - 1), Truncate(FileCp1257, 29) }
    \* N larger than the tables
    \cup { Patch("LittleEndian", FileTwo, 8, 3), Patch("LittleEndian", FileTwo, 8, 1000000),
           Patch("BigEndian", FilePlain, 8, 1056964608) }
    \* O and T at the end of the file and beyond it
    \cup { Patch("LittleEndian", FileTwo, 12, Len(FileTwo)),
           Patch("LittleEndian", FileTwo, 12, Len(FileTwo) - 7),
           Patch("LittleEndian", FileTwo, 12, Len(FileTwo) + 1),
           Patch("LittleEndian", FileTwo, 16, Len(FileTwo)),
           Patch("LittleEndian", FileTwo, 16, Len(FileTwo) + 1),
           Patch("BigEndian", FilePlain, 16, 1056964608),
           Patch("LittleEndian", FileTwo, 16, 28) }
    \* records whose length or offset leaves the file
    \cup { Patch("LittleEndian", FileTwo, 28, 1056964608),
           Patch("LittleEndian", FileTwo, 32, Len(FileTwo)),
           Patch("LittleEndian", FileTwo, 32, Len(FileTwo) - 1),
           Patch("LittleEndian", FileTwo, 48, 1000000),
           Patch("LittleEndian", FileTwo, 44, 1056964608),
           Patch("LittleEndian", FileTwo, 56, Len(FileTwo)) }
    \* the last blob read as an original, its NUL cut off
    \cup { Truncate(Patch("LittleEndian", FileTwo, 40, Len(FileTwo) - 2), Len(FileTwo) - 1),
           Patch("LittleEndian", FileTwo, 28, 3),
           Patch("LittleEndian", FileTwo, 36, 0) }
    \* other magic numbers
    \cup { [k \in 1..28 |-> 0], [k \in 1..10 |-> 0],
           Patch("LittleEndian", FileTwo, 0, 0),
           <<149, 4, 18, 222>> \o Sub(FileTwo, 4, Len(FileTwo)),
           <<222, 18, 4, 149, 0>> \o Sub(FilePlain, 5, Len(FilePlain)),
           <<18, 222, 149, 4>> \o Sub(FileTwo, 4, Len(FileTwo)) }

Files == WellFormedFiles \cup DamagedFiles

Options ==
    { ParseOptions(e, f) : e \in {None, Some("windows-1257"), Some("utf-8")},
                           f \in {None, Some("lithuanian_plural")} }


\* the strings looked up: ids that the files and messages hold, one that
\* none holds, a combined key, the empty id
QueryIds == {S("a"), S("b"), S("zz"), S("c") \o <<4>> \o S("a"), << >>}
QueryContexts == {S("c"), S("x")}
QueryPlural == S("many")
Counts == 0..MaxCount

\* the messages inserted directly
Messages ==
    { Message_new(S("a"), None, <<S("X")>>),
      Message_new(S("a"), Some(S("c")), <<S("Y"), S("Ys")>>),
      Message_new(S("b"), None, << >>),
      Message_with_plural(S("b"), Some(S("c")), <<S("Z"), S("Zs"), S("Zz")>>, Some(S("bs"))),
      Message_new(S("c") \o <<4>> \o S("a"), None, <<S("W")>>) }

\* the resolvers assigned directly (lib.rs, the tests at lines 328 to 359)
Resolvers == {Function("count_resolver"), Function("lithuanian_plural")}

\* the files parsed between the other operations
OpsFiles == {FileCp1257, FilePlain, Truncate(FileTwo, 43)}

(***************************************************************************)
(* The state: two catalogs the caller holds, the position and the locals   *)
(* of a running parse_catalog, its returned value, the value the last      *)
(* lookup returned, the number of operations done on the catalogs.         *)
(***************************************************************************)
NoResult == [tag |-> "None"]
NoCall == [call |-> "none", ctx |-> None, id |-> << >>, plural |-> << >>, n |-> 0,
           out |-> Ok(<< >>)]
Call(name, ctx, id, plural, n, out) ==
    [call |-> name, ctx |-> ctx, id |-> id, plural |-> plural, n |-> n, out |-> out]

Init ==
    /\ cats = <<Catalog_new, Catalog_new>>
    /\ pc = "idle"
    /\ p = Locals(<< >>, ParseOptions(None, None))
    /\ result = NoResult
    /\ ret = NoCall
    /\ ops = 0

\* parse_catalog is called: lines 142 to 164
Take(st) ==
    /\ p' = st.p
    /\ pc' = IF st.done THEN "done" ELSE "loop"
    /\ result' = IF st.done THEN st.res ELSE result
    /\ UNCHANGED <<cats, ret, ops>>

ParseBegin(file, opts) ==
    /\ pc = "idle"
    /\ Take(Header(file, opts))

\* one iteration of the loop: lines 166 to 232
ParseEntry ==
    /\ pc = "loop"
    /\ p.i < p.num_strings
    /\ Take(EntryStep(p))

\* the loop is over: lines 234 and 235; the caller holds the catalog
ParseReturn ==
    /\ pc = "loop"
    /\ p.i >= p.num_strings
    /\ pc' = "done"
    /\ result' = Finish(p)
    /\ cats' = [cats EXCEPT ![1] = result'.v]
    /\ UNCHANGED <<p, ret, ops>>

\* the parse returned a catalog
Returned == pc = "done" /\ result.tag = "Ok"

\* the lookups, on the first catalog
Gettext(k) ==
    /\ ret' = Call("gettext", None, k, << >>, 0, gettext(cats[1], k))
    /\ UNCHANGED <<cats, pc, p, result, ops>>

Pgettext(c, k) ==
    /\ ret' = Call("pgettext", Some(c), k, << >>, 0, pgettext(cats[1], c, k))
    /\ UNCHANGED <<cats, pc, p, result, ops>>

Ngettext(k, pl, n) ==
    /\ ret' = Call("ngettext", None, k, pl, n, ngettext(cats[1], k, pl, n))
    /\ UNCHANGED <<cats, pc, p, result, ops>>

Npgettext(c, k, pl, n) ==
    /\ ret' = Call("npgettext", Some(c), k, pl, n, npgettext(cats[1], c, k, pl, n))
    /\ UNCHANGED <<cats, pc, p, result, ops>>

Next ==
    \/ \E file \in Files, opts \in Options : ParseBegin(file, opts)
    \/ ParseEntry
    \/ ParseReturn
    \/ \E k \in QueryIds : Returned /\ Gettext(k)
    \/ \E c \in QueryContexts, k \in QueryIds : Returned /\ Pgettext(c, k)
    \/ \E k \in QueryIds, n \in Counts : Returned /\ Ngettext(k, QueryPlural, n)
    \/ \E c \in QueryContexts, k \in QueryIds, n \in Counts :
          Returned /\ Npgettext(c, k, QueryPlural, n)

Spec == Init /\ [][Next]_vars

(***************************************************************************)
(* The operations on catalogs, in any order: parse as one call, insert,    *)
(* merge, the assignment of a resolver, the lookups.  A returned string    *)
(* borrows from the catalog, so it is gone when the catalog is changed.    *)
(***************************************************************************)
Parse(d, file, opts) ==
    /\ ops < MaxOps
    /\ result' = parse_catalog(file, opts)
    /\ cats' = IF result'.tag = "Ok" THEN [cats EXCEPT ![d] = result'.v] ELSE cats
    /\ ops' = ops + 1
    /\ ret' = NoCall
    /\ UNCHANGED <<pc, p>>

Insert(d, msg) ==
    /\ ops < MaxOps
    /\ cats' = [cats EXCEPT ![d] = insert(@, msg)]
    /\ ops' = ops + 1
    /\ ret' = NoCall
    /\ UNCHANGED <<pc, p, result>>

Merge ==
    /\ ops < MaxOps
    /\ cats' = [cats EXCEPT ![1] = merge(@, cats[2])]
    /\ ops' = ops + 1
    /\ ret' = NoCall
    /\ UNCHANGED <<pc, p, result>>

SetResolver(r) ==
    /\ ops < MaxOps
    /\ cats' = [cats EXCEPT ![1].resolver = r]
    /\ ops' = ops + 1
    /\ ret' = NoCall
    /\ UNCHANGED <<pc, p, result>>

NextOps ==
    \/ \E d \in 1..2, file \in OpsFiles : Parse(d, file, ParseOptions(None, None))
    \/ \E d \in 1..2, msg \in Messages : Insert(d, msg)
    \/ Merge
    \/ \E r \in Resolvers : SetResolver(r)
    \/ \E k \in QueryIds : Gettext(k)
    \/ \E c \in QueryContexts, k \in QueryIds : Pgettext(c, k)
    \/ \E k \in QueryIds, n \in Counts : Ngettext(k, QueryPlural, n)
    \/ \E c \in QueryContexts, k \in QueryIds, n \in Counts :
          Npgettext(c, k, QueryPlural, n)

SpecOps == Init /\ [][NextOps]_vars

(***************************************************************************)
(* Merging (SpecMerge).  The caller holds two catalogs, each made by       *)
(* Catalog::new, at most MaxInserted calls of insert and an assignment of  *)
(* the resolver; the second may carry a metadata map in its public field.  *)
(* p keeps the two catalogs as they were made.  The first catalog merges   *)
(* the second, once or twice, and is then asked for plural forms.          *)
(***************************************************************************)
MaxInserted == 2

RECURSIVE InsertAll(_, _)
\* insert called with each message of msgs, in order
InsertAll(catalog, msgs) ==
    IF msgs = << >> THEN catalog
    ELSE InsertAll(insert(catalog, Head(msgs)), Tail(msgs))

MessageLists == UNION {[1..k -> Messages] : k \in 0..MaxInserted}

Made(msgs, r, md) == [InsertAll(Catalog_new, msgs) EXCEPT !.resolver = r, !.metadata = md]

InitMerge ==
    /\ cats \in { <<Made(ma, ra, None), Made(mb, Function("count_resolver"), md)>> :
                    ma \in MessageLists, mb \in MessageLists,
                    ra \in {Function("default_resolver"), Function("lithuanian_plural")},
                    md \in {None, Some(parse_metadata(MetaPlain).v)} }
    /\ p = cats
    /\ pc = "idle"
    /\ result = NoResult
    /\ ret = NoCall
    /\ ops = 0

Merged == ops >= 1

\* a lookup leaves the catalogs as they are: one after each merge shows all
\* that any number would
Fresh == Merged /\ ret = NoCall

NextMerge ==
    \/ Merge
    \/ \E k \in QueryIds, n \in Counts : Fresh /\ Ngettext(k, QueryPlural, n)
    \/ \E c \in QueryContexts, k \in QueryIds, n \in Counts :
          Fresh /\ Npgettext(c, k, QueryPlural, n)

SpecMerge == InitMerge /\ [][NextMerge]_vars

(***************************************************************************)
(* The header map (SpecMeta).  A header blob is drawn, parse_metadata      *)
(* makes the map, and the map is asked for its charset.  The blobs hold a  *)
(* Content-Type line whose value is made of at most MaxPieces pieces, or   *)
(* another line, or nothing.                                               *)
(***************************************************************************)
MaxPieces == 4
Pieces == {S("charset="), S("utf-8"), S("text/plain; "), S(";"), S("abc")}
HeaderValues == {Concat(ps) : ps \in UNION {[1..k -> Pieces] : k \in 0..MaxPieces}}
HeaderBlobs ==
    {S("Content-Type:") \o v \o <<10>> : v \in HeaderValues}
    \cup {S("Language: charset=lt\nContent-Type: ") \o v \o <<10>> : v \in HeaderValues}
    \cup {<< >>, MetaPlain, MetaModulo, S("Content-Transfer-Encoding: charset=8bit\n")}

InitMeta ==
    /\ cats = <<Catalog_new, Catalog_new>>
    /\ pc = "blob"
    /\ p \in HeaderBlobs
    /\ result = NoResult
    /\ ret = NoCall
    /\ ops = 0

\* parse_metadata(blob)
ParseHeader ==
    /\ pc = "blob"
    /\ result' = parse_metadata(p)
    /\ pc' = "map"
    /\ UNCHANGED <<cats, p, ret, ops>>

\* MetadataMap::charset on the map that parse_metadata returned
Charset ==
    /\ pc = "map"
    /\ result.tag = "Ok"
    /\ ret' = Call("charset", None, << >>, << >>, 0, charset(result.v))
    /\ pc' = "asked"
    /\ UNCHANGED <<cats, p, result, ops>>

NextMeta == ParseHeader \/ Charset

SpecMeta == InitMeta /\ [][NextMeta]_vars

(***************************************************************************)
(* The plural expressions (SpecPlural).  A source is drawn, Ast::parse is  *)
(* called on it, the tree it returns is resolved for counts, and the       *)
(* source is parsed again inside a pair of parentheses.  Sources are the   *)
(* short strings over an alphabet of the language and the texts of the     *)
(* expressions of ExprTrees, written with the parentheses that the         *)
(* precedence of C makes necessary and no others.                          *)
(***************************************************************************)
\* the precedence of C: what binds tighter has the greater number
OpPrec ==
    [o \in {"Or", "And", "Equal", "NotEqual", "GreaterOrEqual", "SmallerOrEqual",
            "Greater", "Smaller", "Modulo"} |->
        IF o = "Or" THEN 2 ELSE IF o = "And" THEN 3
        ELSE IF o \in {"Equal", "NotEqual"} THEN 4
        ELSE IF o = "Modulo" THEN 6 ELSE 5]

OpText ==
    [o \in DOMAIN OpPrec |->
        IF o = "Or" THEN S("||") ELSE IF o = "And" THEN S("&&")
        ELSE IF o = "Equal" THEN S("==") ELSE IF o = "NotEqual" THEN S("!=")
        ELSE IF o = "GreaterOrEqual" THEN S(">=") ELSE IF o = "SmallerOrEqual" THEN S("<=")
        ELSE IF o = "Greater" THEN S(">") ELSE IF o = "Smaller" THEN S("<")
        ELSE S("%")]

Prec(e) ==
    IF e.t = "Ternary" THEN 1 ELSE IF e.t = "Op" THEN OpPrec[e.op]
    ELSE IF e.t = "Not" THEN 7 ELSE 8

RECURSIVE Show(_)
\* the text of e, in parentheses when its precedence is below min
ShowAt(e, min) ==
    IF Prec(e) < min THEN <<40>> \o Show(e) \o <<41>> ELSE Show(e)

\* the text of an expression of C: the binary operators associate to the
\* left, the conditional operator to the right
Show(e) ==
    IF e.t = "N" THEN S("n")
    ELSE IF e.t = "Integer" THEN <<48 + e.x>>
    ELSE IF e.t = "Not" THEN <<33>> \o ShowAt(e.val, 7)
    ELSE IF e.t = "Op"
    THEN ShowAt(e.lhs, OpPrec[e.op]) \o OpText[e.op] \o ShowAt(e.rhs, OpPrec[e.op] + 1)
    ELSE ShowAt(e.cond, 2) \o <<63>> \o Show(e.ok) \o <<58>> \o Show(e.nok)

\* literals run from 0 to MaxLiteral
MaxLiteral == 1
Leaves == {N} \cup {Integer(x) : x \in 0..MaxLiteral}
BinaryTrees == {Op(o, a, b) : o \in DOMAIN OpPrec, a \in Leaves, b \in Leaves}

\* the expressions of at most two operators
ExprTrees ==
    Leaves \cup BinaryTrees
    \cup {Not(a) : a \in Leaves \cup BinaryTrees}
    \cup {Ternary(c, a, b) : c \in Leaves, a \in Leaves, b \in Leaves}
    \cup {Op(o, a, b) : o \in DOMAIN OpPrec, a \in BinaryTrees, b \in Leaves}
    \cup {Op(o, a, b) : o \in DOMAIN OpPrec, a \in Leaves, b \in BinaryTrees}
    \cup {Op(o, Not(a), b) : o \in DOMAIN OpPrec, a \in Leaves, b \in Leaves}
    \cup {Ternary(c, a, b) : c \in {Op("Or", N, Integer(1)), Op("Smaller", N, Integer(1))},
                             a \in Leaves,
                             b \in Leaves \cup {Ternary(N, Integer(0), Integer(1))}}
    \cup {Ternary(N, Ternary(N, Integer(0), Integer(1)), b) : b \in Leaves}

\* the strings of at most MaxLen characters over: n 1 ( ) ? : & and the space
MaxLen == 4
PluralAlphabet == {110, 49, 40, 41, 63, 58, 38, 32}
RawSources == UNION {[1..k -> PluralAlphabet] : k \in 0..MaxLen}

\* the strings of at most MaxLen characters over: n ( ) > = ! %
ComparisonAlphabet == {110, 40, 41, 62, 61, 33, 37}
RawComparisons == UNION {[1..k -> ComparisonAlphabet] : k \in 0..MaxLen}

\* a source, and the expression it is the text of when it was written from one
\* sources of the kinds that Ast::parse has to refuse, and of the tests
NamedSources ==
    { S("n ? 1"), S("(n ? 1 : 2) ? 1"), S("n : 1 ? 2"), S("1 : n ? 1 : 0"),
      S("(n == 1"), S("n == 1)"), S("n == 1 && ("), S("n && "), S(" || n"),
      S("n % "), S("x"), S("n + 1"), S("-1"), S("1.5"), S("n == 42 ? n : 6 && n < 7"),
      S("(n == 1 || n == 2) ? 0 : 1"), S("n%10%3"), S("+1"), S("n ? 0 ? 1 : 0 : 1") }

PluralInputs ==
    {[src |-> s, expr |-> None] : s \in RawSources \cup RawComparisons \cup NamedSources}
    \cup {[src |-> Show(e), expr |-> Some(e)] : e \in ExprTrees}

\* the whitespace around a parenthesised source
Paddings == {<< >>, <<32>>}

InitPlural ==
    /\ cats = <<Catalog_new, Catalog_new>>
    /\ pc = "source"
    /\ p \in PluralInputs
    /\ result = NoResult
    /\ ret = NoCall
    /\ ops = 0

\* Ast::parse(src)
ParseSource ==
    /\ pc = "source"
    /\ result' = parse(p.src)
    /\ pc' = "parsed"
    /\ UNCHANGED <<cats, p, ret, ops>>

\* Ast::resolve(n) on the tree that Ast::parse returned
Resolve(n) ==
    /\ pc = "parsed"
    /\ result.tag = "Ok"
    /\ ret' = Call("resolve", None, p.src, << >>, n, AstResolve(result.v, n))
    /\ pc' = "resolved"
    /\ UNCHANGED <<cats, p, result, ops>>

\* Ast::parse on the source inside a pair of parentheses
Parenthesise(outer, inner) ==
    /\ pc = "parsed"
    /\ result.tag = "Ok"
    /\ ret' = Call("parse", None, outer \o <<40>> \o inner \o p.src \o inner \o <<41>> \o outer,
                   << >>, 0,
                   parse(outer \o <<40>> \o inner \o p.src \o inner \o <<41>> \o outer))
    /\ pc' = "parenthesised"
    /\ UNCHANGED <<cats, p, result, ops>>

NextPlural ==
    \/ ParseSource
    \/ \E n \in Counts : Resolve(n)
    \/ \E outer \in Paddings, inner \in Paddings : Parenthesise(outer, inner)

SpecPlural == InitPlural /\ [][NextPlural]_vars

(***************************************************************************)
(* The Lithuanian formula (SpecLithuanian): the formula is parsed and the  *)
(* tree is resolved for each count up to MaxN.                             *)
(***************************************************************************)
MaxN == 200

LithuanianFormula ==
    S("(n%10==1 && n%100!=11) ? 0 : ((n%10>=2 && (n%100<10 || n%100>=20)) ? 1 : 2)")

InitLithuanian ==
    /\ cats = <<Catalog_new, Catalog_new>>
    /\ pc = "source"
    /\ p = [src |-> LithuanianFormula, expr |-> None]
    /\ result = NoResult
    /\ ret = NoCall
    /\ ops = 0

NextLithuanian ==
    \/ ParseSource
    \/ \E n \in 0..MaxN : Resolve(n)

SpecLithuanian == InitLithuanian /\ [][NextLithuanian]_vars


(***************************************************************************)
(* The lookups and the keys (SpecOps).                                     *)
(***************************************************************************)
\* the key a lookup with context ctx and id k reads
CombinedKey(ctx, k) == ctx \o <<4>> \o k

\* C1: gettext(k) returns the first translated form of the message stored
\* under k when there is such a message and it has a form, else k itself;
\* pgettext(ctx, id) does the same under the key ctx + U+0004 + id and falls
\* back to id, not to the combined key.
C1_SingularLookup ==
    LET strings == cats[1].strings
        first(key, fallback) ==
            IF key \in DOMAIN strings /\ Len(strings[key].translated) >= 1
            THEN strings[key].translated[1] ELSE fallback
    IN  /\ ret.call = "gettext" => ret.out = Ok(first(ret.id, ret.id))
        /\ ret.call = "pgettext" =>
              ret.out = Ok(first(CombinedKey(ret.ctx[1], ret.id), ret.id))

\* pgettext found no form under the combined key, although the catalog holds
\* a message under the bare id, and gave back the id
C1_Witness ==
    /\ ret.call = "pgettext"
    /\ CombinedKey(ret.ctx[1], ret.id) \notin DOMAIN cats[1].strings
    /\ ret.id \in DOMAIN cats[1].strings
    /\ Len(cats[1].strings[ret.id].translated) >= 1
    /\ ret.out = Ok(ret.id)

\* C2: ngettext and npgettext return translated[resolver(n)] of the message
\* under the key when it exists and has that form; else id when n = 1 and
\* plural when n /= 1, whatever index the resolver gave.
C2_PluralLookup ==
    ret.call \in {"ngettext", "npgettext"} =>
        LET strings == cats[1].strings
            key   == IF ret.call = "ngettext" THEN ret.id
                     ELSE CombinedKey(ret.ctx[1], ret.id)
            index == resolve(cats[1].resolver, ret.n)
        IN  index.tag = "Ok" =>
               ret.out = Ok(IF key \in DOMAIN strings
                                  /\ index.v < Len(strings[key].translated)
                            THEN strings[key].translated[index.v + 1]
                            ELSE IF ret.n = 1 THEN ret.id ELSE ret.plural)

\* n = 1, the resolver's index is not 0 and is beyond the forms of the
\* message that exists: the id comes back
C2_Witness ==
    /\ ret.call = "ngettext"
    /\ ret.n = 1
    /\ ret.id \in DOMAIN cats[1].strings
    /\ resolve(cats[1].resolver, 1).v >= Len(cats[1].strings[ret.id].translated)
    /\ resolve(cats[1].resolver, 1).v /= 0
    /\ ret.out = Ok(ret.id)

\* C3: after any sequence of insert, parse and merge, every entry (k, m) of
\* a string map has k = m.id when m has no context and
\* k = m.context + U+0004 + m.id when it has one.
C3_KeyInvariant ==
    \A d \in 1..2 : \A k \in DOMAIN cats[d].strings :
        LET m == cats[d].strings[k]
        IN  IF m.context = None THEN k = m.id
            ELSE k = m.context[1] \o <<4>> \o m.id

\* the first catalog holds, after a merge or a parse, messages with and
\* without a context that the second catalog holds too
C3_Witness ==
    /\ ops >= 2
    /\ \E k \in DOMAIN cats[1].strings \cap DOMAIN cats[2].strings :
          cats[1].strings[k].context /= None
    /\ \E k \in DOMAIN cats[1].strings \cap DOMAIN cats[2].strings :
          cats[1].strings[k].context = None


(***************************************************************************)
(* The parser (Spec).  After a return the locals p are those of the        *)
(* iteration that returned.                                                *)
(***************************************************************************)
Called == pc /= "idle"
FirstFour == Sub(p.contents, 0, 4)
ValidMagic == FirstFour \in {<<222, 18, 4, 149>>, <<149, 4, 18, 222>>}

\* C4: parse fails with Eof for every input shorter than 28 bytes, whatever
\* its first bytes are; an input of 28 bytes or more whose first four bytes
\* are neither DE 12 04 95 nor 95 04 12 DE fails with BadMagic; an input
\* with either magic passes the check and its byte order is chosen.
C4_LengthBeforeMagic ==
    Called =>
       /\ Len(p.contents) < 28 => pc = "done" /\ result = Err("Eof")
       /\ Len(p.contents) >= 28 /\ ~ValidMagic => pc = "done" /\ result = Err("BadMagic")
       /\ Len(p.contents) >= 28 /\ ValidMagic =>
             /\ result /= Err("BadMagic")
             /\ p.read_u32 = IF FirstFour[1] = 222 THEN "LittleEndian" ELSE "BigEndian"

\* an input of 4 to 27 bytes whose first four bytes are no magic number: Eof
C4_Witness ==
    /\ pc = "done"
    /\ Len(p.contents) \in 4..27
    /\ ~ValidMagic
    /\ result = Err("Eof")

\* the header was read and its two offsets lie within the file
InWalk == pc \in {"loop", "done"} /\ p.read_u32 /= "" /\ p.n >= p.off_otable
              /\ p.n >= p.off_ttable
\* the walk stopped in iteration p.i
Stopped == InWalk /\ pc = "done" /\ result.tag /= "Ok"
U32At(t) == read_u32(p.read_u32, Sub(p.contents, t, t + 4))
\* the record at table offset t, or the blob it names with its NUL, passes
\* the end of the file
PastEnd(t) ==
    \/ p.n < t + 8
    \/ U32At(t) > p.n
    \/ U32At(t + 4) > p.n
    \/ U32At(t + 4) + U32At(t) + 1 > p.n
\* the iteration that stopped got as far as the translation record
ReachedTranslation ==
    /\ ~PastEnd(p.off_otable)
    /\ ContextAndId(p, OriginalBlob(p).v).tag = "Ok"
    /\ ~(ContextAndId(p, OriginalBlob(p).v).v.id = << >> /\ p.i /= 0)

\* C5: with a valid header, whatever N, O, T and the records are, the walk
\* reads no position at or beyond the length of the file: no slice is out
\* of range, and where the walk comes to a record or a blob with its NUL
\* that passes the end of the file, parse returns Eof.
C5_WalkInBounds ==
    /\ Called /\ p.read_u32 /= "" =>
          /\ result /= Panic("slice index out of range")
          /\ (p.n < p.off_otable \/ p.n < p.off_ttable) => result = Err("Eof")
    /\ InWalk /\ p.i >= 1 =>
          ~PastEnd(p.off_otable - 8) /\ ~PastEnd(p.off_ttable - 8)
    /\ Stopped /\ PastEnd(p.off_otable) => result = Err("Eof")
    /\ Stopped /\ ReachedTranslation /\ PastEnd(p.off_ttable) => result = Err("Eof")

\* the record of an original lies in the file, its blob ends exactly at the
\* end of the file, so that only its NUL is missing: Eof
C5_Witness ==
    /\ Stopped
    /\ p.n >= p.off_otable + 8
    /\ U32At(p.off_otable + 4) + U32At(p.off_otable) = p.n
    /\ result = Err("Eof")


\* the locals as they were when iteration 0 began
AtEntryZero ==
    [p EXCEPT !.i = 0,
              !.off_otable = U32At(12),
              !.off_ttable = U32At(16),
              !.encoding = IF IsSome(p.opts.force_encoding)
                           THEN p.opts.force_encoding[1] ELSE "utf-8"]
\* the decoded context and id of the entry that iteration l reads, when the
\* iteration gets as far as the id
IdRead(l) ==
    IF OriginalBlob(l).tag = "Ok" THEN ContextAndId(l, OriginalBlob(l).v)
    ELSE OriginalBlob(l)
EmptyIdRead(l) == IdRead(l).tag = "Ok" /\ IdRead(l).v.id = << >>

\* C6: an entry whose decoded id is empty is accepted only at index 0, and
\* there it is read as the metadata record; at an index i > 0 it makes parse
\* fail with MisplacedMetadata, and no catalog is returned.
C6_MetadataOnlyFirst ==
    /\ Stopped /\ p.i > 0 /\ p.i < p.num_strings /\ EmptyIdRead(p) =>
          result = Err("MisplacedMetadata") /\ cats[1] = Catalog_new
    /\ InWalk /\ pc = "loop" /\ p.i > 0 /\ p.i < p.num_strings /\ EmptyIdRead(p) =>
          EntryStep(p).res = Err("MisplacedMetadata")
    /\ InWalk /\ (\E k \in DOMAIN p.catalog.strings : p.catalog.strings[k].id = << >>) =>
          EmptyIdRead(AtEntryZero) /\ IsSome(p.map)
    /\ InWalk /\ p.i = 0 /\ EmptyIdRead(p) => result /= Err("MisplacedMetadata")

\* entry 0 was read as the metadata record, a later entry has an empty id
C6_Witness ==
    /\ Stopped
    /\ p.i > 0
    /\ IsSome(p.map)
    /\ EmptyIdRead(p)
    /\ result = Err("MisplacedMetadata")

\* the decoders, by name
DecodeAs(encoding, b) ==
    IF encoding = "utf-8" THEN DecodeUtf8(b) ELSE DecodeWindows1257(b)
\* the encoding that the claim gives entry i
EncodingFor(i) ==
    IF IsSome(p.opts.force_encoding) THEN p.opts.force_encoding[1]
    ELSE IF i = 0 THEN "utf-8"
    ELSE IF IsSome(p.map) /\ IsSome(charset(p.map[1]))
         THEN encoding_from_whatwg_label(charset(p.map[1])[1])[1]
    ELSE "utf-8"
\* the forms of the translation that the record at table offset t names,
\* decoded as the claim says entry i is decoded
FormsAt(t, i) ==
    LET parts == Split(Sub(p.contents, U32At(t + 4), U32At(t + 4) + U32At(t)), <<0>>)
    IN  [k \in 1..Len(parts) |-> DecodeAs(EncodingFor(i), parts[k])]

\* C7: a forced encoding decodes every entry, entry 0 too, whatever charset
\* the metadata declares; with none forced, entry 0 is decoded as UTF-8 and
\* every entry i >= 1 with the charset that the metadata entry at index 0
\* declares, or as UTF-8 when it declares none.
C7_EncodingPrecedence ==
    /\ InWalk /\ pc = "loop" => p.encoding = EncodingFor(p.i)
    /\ InWalk /\ p.i >= 1 =>
          LET forms == FormsAt(p.off_ttable - 8, p.i - 1)
          IN  /\ \A k \in 1..Len(forms) : forms[k].tag = "Ok"
              /\ \E key \in DOMAIN p.catalog.strings :
                    p.catalog.strings[key].translated = [k \in 1..Len(forms) |-> forms[k].v]

\* no encoding forced, the metadata declares windows-1257, and a later
\* entry holds bytes that are text in windows-1257 and are not UTF-8
C7_Witness ==
    /\ Returned
    /\ ~IsSome(p.opts.force_encoding)
    /\ IsSome(p.map)
    /\ p.encoding = "windows-1257"
    /\ \E key \in DOMAIN cats[1].strings : cats[1].strings[key].translated = << <<268, 101>> >>

\* the metadata record was parsed and declares a label that the registry
\* does not know
UnknownLabelDeclared ==
    /\ IsSome(p.map)
    /\ IsSome(charset(p.map[1]))
    /\ ~IsSome(encoding_from_whatwg_label(charset(p.map[1])[1]))

\* C8, as the specification states it: whenever the metadata entry declares
\* a charset label that the registry does not recognize, parse fails with
\* UnknownEncoding.
C8_UnknownLabelFails ==
    pc = "done" /\ UnknownLabelDeclared => result = Err("UnknownEncoding")

\* C8, as the code has it: the label is looked up only when the caller
\* forced no encoding; then an unknown label makes parse fail with
\* UnknownEncoding, and no catalog is returned.
C8_UnknownLabelFailsUnlessForced ==
    pc = "done" /\ UnknownLabelDeclared /\ ~IsSome(p.opts.force_encoding) =>
          result = Err("UnknownEncoding") /\ cats[1] = Catalog_new

\* no encoding forced, an unknown label declared: UnknownEncoding
C8_Witness ==
    /\ pc = "done"
    /\ UnknownLabelDeclared
    /\ ~IsSome(p.opts.force_encoding)
    /\ result = Err("UnknownEncoding")


\* the plural expression of the parsed metadata record, when it gives one
PluralDeclared == IF IsSome(p.map) THEN plural_forms(p.map[1])[2] ELSE None

\* C9, as the specification states it: the resolver of the returned catalog
\* is the forced function when the caller forced one, even when the metadata
\* carries a formula; else the compiled expression of the metadata when it
\* gives one; else the default, 0 for n = 1 and 1 otherwise.
C9_ResolverPrecedence ==
    Returned =>
       IF IsSome(p.opts.force_plural)
       THEN cats[1].resolver = Function(p.opts.force_plural[1])
       ELSE IF IsSome(PluralDeclared)
       THEN cats[1].resolver = Expr(parse(PluralDeclared[1]).v)
       ELSE \A n \in Counts :
               resolve(cats[1].resolver, n) = Ok(IF n = 1 THEN 0 ELSE 1)

\* a plural function was forced, the metadata record was parsed, and the
\* returned catalog resolves with the expression compiled from the metadata
C9_ForcedPluralOverridden ==
    /\ Returned
    /\ p.opts.force_plural = Some("lithuanian_plural")
    /\ IsSome(p.map)
    /\ cats[1].resolver = Expr(parse(PluralSource(p.map[1])).v)
    /\ resolve(cats[1].resolver, 0) /= Ok(lithuanian_plural(0))

\* the lines of the first translated form of entry 0, when entry 0 has an
\* empty id and its translation was read
MetadataLinesRead ==
    IF Called /\ p.read_u32 /= "" /\ p.n >= U32At(12) /\ p.n >= U32At(16) /\ U32At(8) > 0
          /\ EmptyIdRead(AtEntryZero) /\ TranslatedBlob(AtEntryZero).tag = "Ok"
    THEN Some(SelectSeq(Split(TranslatedBlob(AtEntryZero).v[1], <<10>>),
                        LAMBDA line : line /= << >>))
    ELSE None
HasColon(line) == \E k \in 1..Len(line) : line[k] = 58
\* the key and the value of a line: the trimmed text before and after its
\* first ':'
LineKey(line) == Trim(SubSeq(line, 1, SetMin({k \in 1..Len(line) : line[k] = 58}) - 1))
LineValue(line) ==
    Trim(SubSeq(line, SetMin({k \in 1..Len(line) : line[k] = 58}) + 1, Len(line)))

\* C10, as the specification states it: when the metadata blob of entry 0
\* has a non-empty line without ':', parse returns MalformedMetadata (it
\* does not fault, it returns no catalog); when every non-empty line has a
\* ':', the header map holds for each line the trimmed text before the
\* first ':' mapped to the trimmed text after it.
C10_MalformedMetadataReturned ==
    pc = "done" /\ IsSome(MetadataLinesRead) =>
       LET lines == MetadataLinesRead[1]
       IN  IF \E k \in 1..Len(lines) : ~HasColon(lines[k])
           THEN result = Err("MalformedMetadata")
           ELSE /\ IsSome(p.map)
                /\ DOMAIN p.map[1] = {LineKey(lines[k]) : k \in 1..Len(lines)}
                /\ \A k \in 1..Len(lines) :
                      \/ p.map[1][LineKey(lines[k])] = LineValue(lines[k])
                      \/ \E j \in (k + 1)..Len(lines) : LineKey(lines[j]) = LineKey(lines[k])


\* the metadata blob has a line without ':' and parse_catalog panicked in
\* the unwrap of line 217
C10_UnwrapPanics ==
    /\ pc = "done"
    /\ IsSome(MetadataLinesRead)
    /\ \E k \in 1..Len(MetadataLinesRead[1]) : ~HasColon(MetadataLinesRead[1][k])
    /\ result = Panic("called Result::unwrap() on an Err value")

(***************************************************************************)
(* The plural expressions (SpecPlural).                                    *)
(***************************************************************************)
\* C11, as the specification states it: Ast::parse returns a tree or the
\* PluralParsing error for every source, and never faults.
C11_ParseNeverFaults ==
    pc = "parsed" => result.tag = "Ok" \/ result = Err("PluralParsing")

\* C11, as the code has it: a source that is a lone opening parenthesis
\* makes parse_parens take the slice src[1..0], which panics
C11_LoneParenthesisPanics ==
    /\ pc = "parsed"
    /\ Trim(p.src) = S("(")
    /\ result.tag = "Panic"

\* the value C gives a binary operator on the values l and r of its
\* operands; Undefined when an operand that is evaluated has no value or the
\* divisor is zero; && and || do not evaluate the right operand when the
\* left one decides
Undefined == 0 - 1
CValue(op, l, r) ==
    IF l = Undefined THEN Undefined
    ELSE IF op = "And" /\ l = 0 THEN 0
    ELSE IF op = "Or" /\ l /= 0 THEN 1
    ELSE IF r = Undefined THEN Undefined
    ELSE IF op \in {"And", "Or"} THEN Bool(r /= 0)
    ELSE IF op = "Equal" THEN Bool(l = r)
    ELSE IF op = "NotEqual" THEN Bool(l /= r)
    ELSE IF op = "GreaterOrEqual" THEN Bool(l >= r)
    ELSE IF op = "SmallerOrEqual" THEN Bool(l <= r)
    ELSE IF op = "Greater" THEN Bool(l > r)
    ELSE IF op = "Smaller" THEN Bool(l < r)
    ELSE IF r = 0 THEN Undefined
    ELSE l % r

CNot(v) == IF v = Undefined THEN Undefined ELSE Bool(v = 0)

\* the reference evaluator: the value of the expression e of C at n
RECURSIVE CEval(_, _)
CChoice(c, e, n) ==
    IF c = Undefined THEN Undefined
    ELSE IF c /= 0 THEN CEval(e.ok, n) ELSE CEval(e.nok, n)

CEval(e, n) ==
    IF e.t = "N" THEN n
    ELSE IF e.t = "Integer" THEN e.x
    ELSE IF e.t = "Not" THEN CNot(CEval(e.val, n))
    ELSE IF e.t = "Op" THEN CValue(e.op, CEval(e.lhs, n), CEval(e.rhs, n))
    ELSE CChoice(CEval(e.cond, n), e, n)

\* C12, as the specification states it: the text of every expression E is
\* parsed, and the tree evaluates at every n to the value that C's
\* precedence and associativity give E at n (where C gives it one).
C12_AgreesWithC ==
    /\ pc = "parsed" /\ IsSome(p.expr) => result.tag = "Ok"
    /\ pc = "resolved" /\ IsSome(p.expr) /\ CEval(Unwrap(p.expr), ret.n) /= Undefined
          => ret.out = Ok(CEval(Unwrap(p.expr), ret.n))

\* C12, as the code has it: parse_and splits at && before parse_or looks for
\* ||, so 1||0&&0 is read as (1||0)&&0 and evaluates to 0; C reads it as
\* 1||(0&&0), which is 1
C12_AndSplitsFirst ==
    /\ pc = "resolved"
    /\ p.src = S("1||0&&0")
    /\ p.expr = Some(Op("Or", Integer(1), Op("And", Integer(0), Integer(0))))
    /\ result = Ok(Op("And", Op("Or", Integer(1), Integer(0)), Integer(0)))
    /\ ret.out = Ok(0)
    /\ CEval(Unwrap(p.expr), ret.n) = 1

\* the number of '(' less the number of ')' among the first k characters
ParenDepth(s, k) ==
    Cardinality({j \in 1..k : s[j] = 40}) - Cardinality({j \in 1..k : s[j] = 41})

\* every ')' closes an earlier '(' and every '(' is closed
Balanced(s) ==
    /\ \A k \in 1..Len(s) : ParenDepth(s, k) >= 0
    /\ ParenDepth(s, Len(s)) = 0

C14_MergeOverlays ==
    Merged =>
        /\ DOMAIN cats[1].strings = DOMAIN p[1].strings \cup DOMAIN p[2].strings
        /\ \A k \in DOMAIN p[2].strings : cats[1].strings[k] = p[2].strings[k]
        /\ \A k \in DOMAIN p[1].strings \ DOMAIN p[2].strings :
              cats[1].strings[k] = p[1].strings[k]

\* merged twice, with a key both held under different messages, a key only
\* a held and a key only b held
C14_Witness ==
    /\ ops = 2
    /\ \E k \in DOMAIN p[1].strings \cap DOMAIN p[2].strings :
          /\ p[1].strings[k] /= p[2].strings[k]
          /\ cats[1].strings[k] = p[2].strings[k]
    /\ DOMAIN p[1].strings \ DOMAIN p[2].strings /= {}
    /\ DOMAIN p[2].strings \ DOMAIN p[1].strings /= {}

\* the message a lookup of the merged catalog reads came from b
FromB(key) == key \in DOMAIN p[2].strings

\* the key the last lookup read
LookupKey == IF IsSome(ret.ctx) THEN CombinedKey(Unwrap(ret.ctx), ret.id) ELSE ret.id

\* C15: after a.merge(b) the resolver and the metadata of a are those a had
\* before, b is as it was, and a plural lookup of a message that came from b
\* returns the form that a's resolver picks among b's translations (or the
\* fallback for n when that form is missing).
C15_MergeFrame ==
    Merged =>
        /\ cats[1].resolver = p[1].resolver
        /\ cats[1].metadata = p[1].metadata
        /\ cats[2] = p[2]
        /\ ret.call \in {"ngettext", "npgettext"} /\ FromB(LookupKey)
              => ret.out = Ok(IF resolve(p[1].resolver, ret.n).v
                                    < Len(p[2].strings[LookupKey].translated)
                                 THEN p[2].strings[LookupKey].translated[
                                          resolve(p[1].resolver, ret.n).v + 1]
                                 ELSE IF ret.n = 1 THEN ret.id ELSE ret.plural)

\* a message of b with three forms, looked up at a count for which the two
\* resolvers pick different forms, after a merge into a catalog whose
\* resolver and metadata differ from b's
C15_Witness ==
    /\ Merged
    /\ p[1].resolver /= p[2].resolver
    /\ p[1].metadata /= p[2].metadata
    /\ p[1].strings /= cats[1].strings
    /\ ret.call = "npgettext"
    /\ FromB(LookupKey)
    /\ Len(p[2].strings[LookupKey].translated) = 3
    /\ resolve(p[1].resolver, ret.n) /= resolve(p[2].resolver, ret.n)
    /\ ret.out = Ok(p[2].strings[LookupKey].translated[resolve(p[1].resolver, ret.n).v + 1])

(***************************************************************************)
(* The catalog that parse returns (Spec).                                  *)
(***************************************************************************)
\* C16, as the specification states it: on a catalog that parse returned,
\* every lookup returns a string, whatever the count.
C16_LookupsNeverFault ==
    Returned /\ ret.call /= "none" => ret.out.tag = "Ok"

\* C16, as the code has it: the resolver compiled from "plural=1%n" takes
\* the remainder by the count, and ngettext with the count 0 panics
C16_RemainderByZero ==
    /\ Returned
    /\ cats[1].resolver = Expr(Op("Modulo", Integer(1), N))
    /\ ret.call \in {"ngettext", "npgettext"}
    /\ ret.n = 0
    /\ ret.out = Panic("attempt to calculate the remainder with a divisor of zero")

\* the original blob that the record at table offset t names, without the
\* NUL that ends it
OriginalAt(t) == Sub(p.contents, U32At(t + 4), U32At(t + 4) + U32At(t))

\* the blob after the context and its separator, the byte 4
AfterContext(b) ==
    IF IsSome(Position(b, 4)) THEN Sub(b, Unwrap(Position(b, 4)) + 1, Len(b)) ELSE b

\* the bytes after the first NUL that follows the singular id
PluralBytesOf(rest) ==
    IF IsSome(Position(rest, 0)) THEN Sub(rest, Unwrap(Position(rest, 0)) + 1, Len(rest))
    ELSE << >>

PluralBytes(t) == PluralBytesOf(AfterContext(OriginalAt(t)))

\* the plural id that the claim gives the entry i whose original record is
\* at table offset t
PluralFor(t, i) ==
    IF PluralBytes(t) = << >> THEN None
    ELSE Some(DecodeAs(EncodingFor(i), PluralBytes(t)).v)

\* the message stored for the entry that the iteration before p.i read
LastStored(key) ==
    /\ p.catalog.strings[key].id = IdRead([p EXCEPT !.i = @ - 1,
                                                     !.off_otable = @ - 8]).v.id
    /\ p.catalog.strings[key].context = IdRead([p EXCEPT !.i = @ - 1,
                                                          !.off_otable = @ - 8]).v.context

\* C17, as the specification states it: the message stored for an entry has
\* the plural id that follows the singular id in the original blob, decoded,
\* when those bytes are not empty, and no plural id otherwise.
C17_PluralIdStored ==
    InWalk /\ p.i >= 1 =>
        \E key \in DOMAIN p.catalog.strings :
            /\ LastStored(key)
            /\ p.catalog.strings[key].plural = PluralFor(p.off_otable - 8, p.i - 1)

\* C17, as the code has it: the bytes "as" follow the id of the entry just
\* read, and the message stored for it has no plural id
C17_PluralIdDropped ==
    /\ InWalk
    /\ p.i >= 1
    /\ PluralBytes(p.off_otable - 8) = S("as")
    /\ \E key \in DOMAIN p.catalog.strings :
          LastStored(key) /\ p.catalog.strings[key].plural = None

\* C18, as the specification states it: the catalog that parse returns holds
\* in its metadata field the header map parsed from the first translated
\* form of the metadata entry (the local map of parse_catalog), and holds
\* nothing exactly when the file has no metadata entry.
C18_MetadataStored ==
    Returned =>
        /\ cats[1].metadata = p.map
        /\ IsSome(cats[1].metadata) <=> p.num_strings > 0 /\ EmptyIdRead(AtEntryZero)

\* C18, as the code has it: entry 0 is the metadata record, its map was
\* parsed, and the catalog returned has no metadata
C18_MetadataDropped ==
    /\ Returned
    /\ p.num_strings > 0
    /\ EmptyIdRead(AtEntryZero)
    /\ IsSome(p.map)
    /\ S("Content-Type") \in DOMAIN Unwrap(p.map)
    /\ cats[1].metadata = None

(***************************************************************************)
(* The header map (SpecMeta).                                              *)
(***************************************************************************)
HasContentType == S("Content-Type") \in DOMAIN result.v
ContentType == result.v[S("Content-Type")]

\* the whole of the value after the first occurrence of "charset="
AfterFirstCharset ==
    Sub(ContentType, SetMin(Occurrences(ContentType, S("charset="))) + 8, Len(ContentType))

\* C19, as the specification states it: charset() returns nothing without
\* a Content-Type header or without "charset=" in its value, and otherwise
\* everything in the value after the first "charset=", however many times
\* "charset=" occurs.
C19_CharsetAfterFirst ==
    pc = "asked" =>
        ret.out = IF HasContentType /\ Occurrences(ContentType, S("charset=")) /= {}
                  THEN Some(AfterFirstCharset) ELSE None

\* C19, as the code has it: with "charset=" twice in the value, charset()
\* returns what lies between the first and the second occurrence
C19_CutAtSecondCharset ==
    /\ pc = "asked"
    /\ HasContentType
    /\ ContentType = S("charset=utf-8charset=abc")
    /\ AfterFirstCharset = S("utf-8charset=abc")
    /\ ret.out = Some(S("utf-8"))

(***************************************************************************)
(* The Lithuanian formula (SpecLithuanian).                                *)
(***************************************************************************)
\* C20: Ast::parse accepts the Lithuanian formula, and for every n from 0
\* to MaxN the tree resolves to the index that the reference function
\* gives: 0 if n%10==1 and n%100!=11, else 1 if n%10>=2 and (n%100<10 or
\* n%100>=20), else 2.
C20_LithuanianFormula ==
    /\ pc /= "source" => result.tag = "Ok"
    /\ pc = "resolved" => ret.out = Ok(lithuanian_plural(ret.n))

\* the three indices are taken: 101 gives 0, 22 gives 1, 111 gives 2
C20_Witness ==
    /\ pc = "resolved"
    /\ p.src = LithuanianFormula
    /\ ret.n = 111
    /\ ret.out = Ok(2)
    /\ AstResolve(result.v, 101) = Ok(0)
    /\ AstResolve(result.v, 22) = Ok(1)

(***************************************************************************)
(* The parentheses and the operator levels (SpecPlural).                   *)
(***************************************************************************)
\* the 1-based index of the ')' that matches a '(' at index 1, or 0
MatchingClose(s) ==
    IF \E k \in 2..Len(s) : ParenDepth(s, k) = 0
    THEN SetMin({k \in 2..Len(s) : ParenDepth(s, k) = 0})
    ELSE 0

\* the source begins with '(' and the ')' that matches it is the final
\* character
EnclosedInPair(s) == s /= << >> /\ s[1] = 40 /\ MatchingClose(s) = Len(s)

\* C21, as the specification states it: Ast::parse hands on the inside of
\* the trimmed source when the source is enclosed in a matching pair of
\* parentheses, and in every other case hands the whole trimmed source, with
\* no character discarded, to the && level.
C21_StripsOnlyMatchedPair ==
    pc = "parsed" =>
        result = IF EnclosedInPair(Trim(p.src))
                 THEN parse(Sub(Trim(p.src), 1, Len(Trim(p.src)) - 1))
                 ELSE parse_and(Trim(p.src))

\* C21, as the code has it: "(n1" begins with '(' and has no ')' at all;
\* its first and last characters are dropped and the rest, "n", is parsed,
\* where the && level would have refused the whole source
C21_LastCharacterDiscarded ==
    /\ pc = "parsed"
    /\ p.src = S("(n1")
    /\ ~EnclosedInPair(p.src)
    /\ parse_and(p.src) = Err("PluralParsing")
    /\ result = Ok(N)

\* the levels in the order the claim gives, with their tokens
ClaimedLevels ==
    << <<"And", S("&&")>>, <<"Or", S("||")>>, <<"Ternary", S("?")>>,
       <<"GreaterOrEqual", S(">=")>>, <<"Greater", S(">")>>,
       <<"SmallerOrEqual", S("<=")>>, <<"Smaller", S("<")>>,
       <<"Equal", S("==")>>, <<"NotEqual", S("!=")>>, <<"Modulo", S("%")>> >>

\* the 0-based positions at which pat occurs in s outside parentheses
OutsideParens(s, pat) == {a \in Occurrences(s, pat) : ParenDepth(s, a) = 0}

\* the levels whose token occurs in s outside parentheses
LevelsPresent(s) ==
    {k \in DOMAIN ClaimedLevels : OutsideParens(s, ClaimedLevels[k][2]) /= {}}

\* the tree the claim gives a source split at position a by the token pat of
\* the operator op; for the conditional, its ':' is the leftmost one outside
\* parentheses
SplitAt(s, op, pat, a) ==
    IF op /= "Ternary"
    THEN OpOf(op, parse(Sub(s, 0, a)), parse(Sub(s, a + Len(pat), Len(s))))
    ELSE IF OutsideParens(s, S(":")) = {} THEN Err("PluralParsing")
    ELSE TernaryOf(parse(Sub(s, 0, a)),
                   parse(Sub(s, a + 1, SetMin(OutsideParens(s, S(":"))))),
                   parse(Sub(s, SetMin(OutsideParens(s, S(":"))) + 1, Len(s))))

SplitAtLevel(s, lv) == SplitAt(s, lv[1], lv[2], SetMin(OutsideParens(s, lv[2])))

MetadataEntryFirst ==
    /\ p.num_strings > 0
    /\ EmptyIdRead(AtEntryZero)
    /\ IdRead(AtEntryZero).v.context = None

\* the translation blob of entry 0, split on NUL and decoded
HeaderForms ==
    [k \in DOMAIN FormsAt(U32At(16), 0) |-> FormsAt(U32At(16), 0)[k].v]

\* C23: after a successful parse of a file whose entry 0 has an empty id and
\* no context, the catalog holds under the empty key a message whose
\* translated forms are those of the header blob, so the metadata entry is
\* one of the messages counted, and gettext("") returns the header blob, not
\* the empty string it was asked for.
C23_MetadataIsAMessage ==
    Returned /\ MetadataEntryFirst =>
        /\ << >> \in DOMAIN cats[1].strings
        /\ cats[1].strings[<< >>] = Message_new(<< >>, None, HeaderForms)
        /\ Cardinality(DOMAIN cats[1].strings) >= 1
        /\ p.num_strings = 2 => Cardinality(DOMAIN cats[1].strings) = 2
        /\ gettext(cats[1], << >>) = Ok(HeaderForms[1])
        /\ ret.call = "gettext" /\ ret.id = << >> => ret.out = Ok(HeaderForms[1])

\* a file of a metadata entry and two more was parsed: three messages are
\* stored, and gettext("") returned the header
C23_Witness ==
    /\ Returned
    /\ MetadataEntryFirst
    /\ p.num_strings = 3
    /\ Cardinality(DOMAIN cats[1].strings) = 3
    /\ ret.call = "gettext"
    /\ ret.id = << >>
    /\ ret.out = Ok(MetaPlain)
    /\ MetaPlain /= << >>

=============================================================================
